---- MODULE Spec2Model ----
(***************************************************************************)
(* Change Registry of the reactive engine: the class ReactiveProxy         *)
(* (proxy layer, path subscriptions, set/get by path).                     *)
(*                                                                         *)
(* JavaScript values are records [t, v, f]: t is the type tag, v the       *)
(* number (or the length of an array), f the own properties of an object   *)
(* or array, keyed by property name.  A path string is represented by the  *)
(* sequence of its '.'-separated segments ("user.address[0].city" is       *)
(* <<"user", "address[0]", "city">>), so `${path}.${prop}` is Append and   *)
(* path.split('.') is the sequence itself; the empty string is <<>>.       *)
(* The class body is strict-mode code (ES class / ES module), so an        *)
(* assignment whose proxy set trap returns a falsy value, an assignment    *)
(* to a property of a primitive, and a delete whose trap returns false     *)
(* raise TypeError.                                                        *)
(***************************************************************************)
EXTENDS Integers, Sequences, FiniteSets, TLC

VARIABLES
    target,     \* ReactiveProxy.target: the backing object (a value tree)
    observers,  \* ReactiveProxy.observers: path string -> callbacks in insertion order
    handles,    \* unsubscribe functions returned by observe: {[path, cb, k, called]}
    calls,      \* callback invocations made by the last operation, in order
    thrown,     \* exception that left the last operation ("none" when it returned)
    logged,     \* console.error calls made by the last operation
    lastOp,     \* the last operation and its arguments
    nops        \* number of data operations performed so far

vars == <<target, observers, handles, calls, thrown, logged, lastOp, nops>>

\* Update Scheduler: the class ReactiveUpdate, the frame callbacks it has
\* requested, the clock it reads and the nodes it writes.
VARIABLES
    updateHandlers,     \* ReactiveUpdate.updateHandlers: <<[selector, handlers]>> in insertion order
    scheduledUpdates,   \* ReactiveUpdate.scheduledUpdates: the tasks, in the Map's insertion order
    rafId,              \* ReactiveUpdate.rafId (NoRaf is null)
    batchMode,          \* ReactiveUpdate.batchMode
    batchQueue,         \* ReactiveUpdate.batchQueue
    frames,             \* requestAnimationFrame callbacks requested and neither run nor cancelled
    handle,             \* the id the next requestAnimationFrame call returns
    clock,              \* Date.now()
    trace,              \* what the last scheduler operation did, in order
    raised,             \* exception that left the last scheduler operation
    errors,             \* console.error calls made by the last scheduler operation
    lastCall,           \* the last scheduler operation and its arguments
    ncalls              \* scheduleUpdate calls made so far

uvars == <<updateHandlers, scheduledUpdates, rafId, batchMode, batchQueue, frames,
           handle, clock, trace, raised, errors, lastCall, ncalls>>

\* Document Observation Layer: the class ReactiveDOM, the MutationObservers it
\* has created and the document they watch.
VARIABLES
    parentOf,           \* the document: the parent element of each element ("" for none)
    reactiveElements,   \* ReactiveDOM.reactiveElements
    elementObservers,   \* ReactiveDOM.observers: element -> ids of its MutationObservers, in push order
    mos,                \* the connected MutationObservers in creation order: [id, element, concern, records]
    nextMo,             \* the id of the next MutationObserver created
    notifyList,         \* ids of the MutationObservers that got a record, in the order of their first
    updateQueue,        \* ReactiveDOM.updateQueue, in the Set's insertion order
    isUpdating,         \* ReactiveDOM.isUpdating
    drains,             \* processUpdateQueue microtasks queued and not yet run
    released,           \* elements cleanupElement ran for since they were last made reactive
    roots,              \* elements makeReactiveSubtree was called for by the application
    inserted,           \* <<root, element>>: the element came under the root after that call
    dtrace,             \* what the last operation of the layer did, in order
    dcall,              \* the last operation on the document or the layer
    nwrites,            \* document writes made so far
    nmake               \* makeReactive and makeReactiveSubtree calls made by the application so far

dvars == <<parentOf, reactiveElements, elementObservers, mos, nextMo, notifyList, updateQueue,
           isUpdating, drains, released, roots, inserted, dtrace, dcall, nwrites, nmake>>

\* Event Registry: the class EventSystem, the listeners attached to the
\* elements and EventTarget.prototype.addEventListener, which capture() replaces.
VARIABLES
    eventRegistry,      \* EventSystem.eventRegistry: event name -> handlers in push order
    elementEventMap,    \* EventSystem.elementEventMap: element -> event name -> handlers in push order
    delegatedEvents,    \* EventSystem.delegatedEvents: "name:selector" -> handlers in push order
    capturedEvents,     \* EventSystem.capturedEvents
    listeners,          \* the event listener list of each element, in attachment order
    patches,            \* the functions capture() created, in creation order: [eventName, callback, original]
    addEventListener,   \* EventTarget.prototype.addEventListener: Native, or the index of a patch
    bindings,           \* the delegatedHandler closures delegate() created: [parent, selector, eventName, handler]
    unregisters,        \* the functions on() returned: [element, eventName, handler, called]
    restored,           \* how often the restore function of each patch was called
    nextListener,       \* the id of the next wrappedListener closure
    invoked,            \* the callbacks the last operation invoked, in order
    failure,            \* exception that left the last operation of the registry ("none": no modelled call raises one)
    ecall,              \* the last operation of the registry and its arguments
    necalls             \* operations on listeners performed so far

evars == <<eventRegistry, elementEventMap, delegatedEvents, capturedEvents, listeners, patches,
           addEventListener, bindings, unregisters, restored, nextListener, invoked, failure,
           ecall, necalls>>

allvars == <<vars, uvars, dvars, evars>>

----------------------------------------------------------------------------
\* Bounds of the model.

MaxWrites == 3      \* document writes per behaviour
MaxMake == 2        \* makeReactive, makeReactiveSubtree and destroy calls by the application
MaxOps == 1         \* data operations (set, writes, deletes, array methods) per behaviour
MaxObserve == 2     \* observe() calls before the data operations
MaxHandles == 3     \* observe() calls in the registry's own specification
MaxUnsub == 2       \* calls of one unsubscribe function
MaxLen == 5         \* longest array
MaxSchedule == 3    \* scheduleUpdate calls per behaviour
MaxFrames == 4      \* requestAnimationFrame calls per behaviour
MaxTime == 1        \* milliseconds the clock advances
MaxRegister == 2    \* registerHandler calls per behaviour

----------------------------------------------------------------------------
\* Values.

NoProps == [k \in {} |-> 0]

Num(n) == [t |-> "num", v |-> n, f |-> NoProps]
Null == [t |-> "null", v |-> 0, f |-> NoProps]
Undef == [t |-> "undef", v |-> 0, f |-> NoProps]
Obj(props) == [t |-> "obj", v |-> 0, f |-> props]
EmptyObj == Obj(NoProps)

\* ToString of the array indices 0..MaxLen: IdxStr[i + 1] is the property name of index i.
IdxStr == <<"0", "1", "2", "3", "4", "5", "6", "7">>
IsIndex(k) == \E i \in 1..Len(IdxStr) : IdxStr[i] = k
StrIdx(k) == (CHOOSE i \in 1..Len(IdxStr) : IdxStr[i] = k) - 1

Arr(elems) == [t |-> "arr", v |-> Len(elems),
               f |-> [k \in {IdxStr[i] : i \in 1..Len(elems)} |-> elems[StrIdx(k) + 1]]]
EmptyArr == Arr(<<>>)

\* A proxy handed out by the get trap: a fresh Proxy object around `val`, never === val.
ProxyOf(val) == [t |-> "proxy", v |-> 0, f |-> [k \in {"target"} |-> val]]

\* !value
Falsy(val) == val.t \in {"null", "undef"} \/ (val.t = "num" /\ val.v = 0)
\* typeof value === 'object' && value !== null
IsObject(val) == val.t \in {"obj", "arr"}
\* Array.isArray(value)
IsArray(val) == val.t = "arr"

Put(f, k, x) == [j \in (DOMAIN f) \cup {k} |-> IF j = k THEN x ELSE f[j]]
Drop(f, k) == [j \in (DOMAIN f) \ {k} |-> f[j]]
Max(a, b) == IF a >= b THEN a ELSE b

\* obj[prop] on a raw value (own properties; `length` of an array).
PropGet(val, k) ==
    IF ~IsObject(val) THEN Undef
    ELSE IF k \in DOMAIN val.f THEN val.f[k]
    ELSE IF IsArray(val) /\ k = "length" THEN Num(val.v)
    ELSE Undef

\* obj[prop] = x on a raw object or array ([[DefineOwnProperty]] of arrays:
\* an index grows length, a write to length truncates).
PropPut(val, k, x) ==
    IF ~IsArray(val) THEN [val EXCEPT !.f = Put(@, k, x)]
    ELSE IF k = "length"
         THEN [val EXCEPT !.v = x.v,
                          !.f = [j \in {i \in DOMAIN val.f : ~IsIndex(i) \/ StrIdx(i) < x.v} |-> val.f[j]]]
    ELSE IF IsIndex(k)
         THEN [val EXCEPT !.v = Max(@, StrIdx(k) + 1), !.f = Put(@, k, x)]
    ELSE [val EXCEPT !.f = Put(@, k, x)]

\* delete obj[prop] succeeds unless the property is not configurable (length of an array).
CanDelete(val, k) == ~(IsArray(val) /\ k = "length")
PropDel(val, k) == IF CanDelete(val, k) THEN [val EXCEPT !.f = Drop(@, k)] ELSE val

\* The value found by following the property names of loc from val.
RECURSIVE Lookup(_, _)
Lookup(val, loc) ==
    IF loc = <<>> THEN val ELSE Lookup(PropGet(val, Head(loc)), Tail(loc))

\* val with the object at loc replaced by sub (objects are references: a write
\* to the object at loc is seen from the root).
RECURSIVE Replace(_, _, _)
Replace(val, loc, sub) ==
    IF loc = <<>> THEN sub
    ELSE PropPut(val, Head(loc), Replace(PropGet(val, Head(loc)), Tail(loc), sub))

\* ReactiveProxy.deepClone: arrays are rebuilt from their elements, objects
\* from their own keys.
RECURSIVE deepClone(_)
deepClone(val) ==
    IF ~IsObject(val) THEN val
    ELSE IF IsArray(val)
         THEN [t |-> "arr", v |-> val.v,
               f |-> [k \in {i \in DOMAIN val.f : IsIndex(i)} |-> deepClone(val.f[k])]]
    ELSE Obj([k \in DOMAIN val.f |-> deepClone(val.f[k])])

----------------------------------------------------------------------------
\* Inputs.

Callbacks == {"cbA", "cbB"}
\* cbB throws whenever it is invoked.
Throwing == {"cbB"}

\* key.match(/^(\w+)\[(\d+)\]$/): <<arrayName, index>> of a bracketed segment, <<>> for no match.
ArrayMatch(key) ==
    CASE key = "items[0]" -> <<"items", "0">>
      [] key = "items[2]" -> <<"items", "2">>
      [] key = "address[0]" -> <<"address", "0">>
      [] OTHER -> <<>>

\* { count: 0, items: [1, 2], user: { address: [{ city: 1 }] } }
Wrapped ==
    Obj([k \in {"count", "items", "user"} |->
        CASE k = "count" -> Num(0)
          [] k = "items" -> Arr(<<Num(1), Num(2)>>)
          [] k = "user" -> Obj([a \in {"address"} |->
                               Arr(<<Obj([c \in {"city"} |-> Num(1)])>>)])])


----------------------------------------------------------------------------
\* The running operation: the backing object it has written so far, the
\* callbacks it has invoked, the exception that is unwinding it ("none" while
\* it runs), its console.error calls and the result of its last proxy trap.

Run(t) == [target |-> t, calls |-> <<>>, thrown |-> "none", logged |-> 0, ret |-> TRUE]

Call(path, cb, value, oldValue) ==
    [path |-> path, cb |-> cb, value |-> value, old |-> oldValue]

\* observers.forEach(callback => { try { callback(value, oldValue) } catch { console.error } })
RECURSIVE forEachObserver(_, _, _, _, _)
forEachObserver(m, cbs, path, value, oldValue) ==
    IF cbs = <<>> THEN m
    ELSE LET cb == Head(cbs)
             called == [m EXCEPT !.calls = Append(@, Call(path, cb, value, oldValue))]
             caught == IF cb \in Throwing THEN [called EXCEPT !.logged = @ + 1] ELSE called
         IN  forEachObserver(caught, Tail(cbs), path, value, oldValue)

\* The same loop without the try/catch: the first callback that throws ends it.
RECURSIVE forEachObserverUncaught(_, _, _, _, _)
forEachObserverUncaught(m, cbs, path, value, oldValue) ==
    IF cbs = <<>> THEN m
    ELSE LET cb == Head(cbs)
             called == [m EXCEPT !.calls = Append(@, Call(path, cb, value, oldValue))]
         IN  IF cb \in Throwing THEN [called EXCEPT !.thrown = "callback"]
             ELSE forEachObserverUncaught(called, Tail(cbs), path, value, oldValue)

notifyUncaught(m, path, value, oldValue) ==
    IF m.thrown # "none" \/ path \notin DOMAIN observers THEN m
    ELSE forEachObserverUncaught(m, observers[path], path, value, oldValue)

\* ReactiveProxy.notify
notify(m, path, value, oldValue) ==
    IF m.thrown # "none" \/ path \notin DOMAIN observers THEN m
    ELSE forEachObserver(m, observers[path], path, value, oldValue)

\* createArrayProxy(array, path)[prop] = value: the array proxy has no set trap,
\* so the assignment falls through to the array itself; its get trap (the
\* wrappers around push, pop, ...) is not consulted by an assignment.
arrayProxySet(m, loc, prop, value) ==
    [m EXCEPT !.target = Replace(@, loc, PropPut(Lookup(@, loc), prop, value))]

\* A set trap that notifies but does not write through to the backing object.
setTrapNoWrite(m, loc, prop, value) ==
    LET obj == Lookup(m.target, loc)
        oldValue == PropGet(obj, prop)
    IN  IF IsArray(obj) THEN [m EXCEPT !.ret = ~Falsy(value)]
        ELSE LET n1 == notify(m, Append(loc, prop), value, oldValue)
                 n2 == IF loc # <<>> THEN notify(n1, loc, obj, obj) ELSE n1
             IN  [n2 EXCEPT !.ret = TRUE]

\* The set trap of createProxy(obj, path), obj being the object at loc. The
\* array branch returns the assigned value (a falsy value is a falsy trap
\* result); the object branch writes, notifies the path of the property and,
\* for a nested object, the path of the object itself, and returns true.
setTrap(m, loc, prop, value) ==
    LET obj == Lookup(m.target, loc)
        oldValue == PropGet(obj, prop)
    IN  IF IsArray(obj)
        THEN [arrayProxySet(m, loc, prop, value) EXCEPT !.ret = ~Falsy(value)]
        ELSE LET w == [m EXCEPT !.target = Replace(@, loc, PropPut(obj, prop, value))]
                 n1 == notify(w, Append(loc, prop), value, oldValue)
                 n2 == IF loc # <<>> THEN notify(n1, loc, Lookup(w.target, loc), Lookup(w.target, loc))
                       ELSE n1
             IN  [n2 EXCEPT !.ret = TRUE]

\* A deleteProperty trap that passes its arguments to the observers in the wrong order.
deleteTrapSwapped(m, loc, prop) ==
    LET obj == Lookup(m.target, loc)
        oldValue == PropGet(obj, prop)
    IN  IF CanDelete(obj, prop)
        THEN [notify([m EXCEPT !.target = Replace(@, loc, PropDel(obj, prop))],
                     Append(loc, prop), oldValue, Undef) EXCEPT !.ret = TRUE]
        ELSE [m EXCEPT !.ret = FALSE]

\* The deleteProperty trap of createProxy(obj, path).
deleteTrap(m, loc, prop) ==
    LET obj == Lookup(m.target, loc)
        oldValue == PropGet(obj, prop)
    IN  IF CanDelete(obj, prop)
        THEN [notify([m EXCEPT !.target = Replace(@, loc, PropDel(obj, prop))],
                     Append(loc, prop), Undef, oldValue) EXCEPT !.ret = TRUE]
        ELSE [m EXCEPT !.ret = FALSE]

\* proxy[prop] = value in strict code, proxy wrapping the object at loc:
\* a falsy trap result raises TypeError (after the trap has run).
assign(m, loc, prop, value) ==
    IF m.thrown # "none" THEN m
    ELSE LET r == setTrap(m, loc, prop, value)
         IN  IF r.thrown = "none" /\ ~r.ret THEN [r EXCEPT !.thrown = "TypeError"] ELSE r

\* delete proxy[prop] in strict code (DeletePropertyOrThrow of the array methods).
deleteOrThrow(m, loc, prop) ==
    IF m.thrown # "none" THEN m
    ELSE LET r == deleteTrap(m, loc, prop)
         IN  IF r.thrown = "none" /\ ~r.ret THEN [r EXCEPT !.thrown = "TypeError"] ELSE r

----------------------------------------------------------------------------
\* What an expression of set/get holds: a proxy around the object at loc
\* (whose path string is loc joined by '.'), or a primitive.

Ref(loc) == [proxy |-> TRUE, loc |-> loc, prim |-> Undef]
Prim(val) == [proxy |-> FALSE, loc |-> <<>>, prim |-> val]

Truthy(cur) == cur.proxy \/ ~Falsy(cur.prim)
\* typeof cur === 'object'
TypeofObject(cur) == cur.proxy \/ cur.prim.t = "null"

\* cur[key]: the get trap of createProxy wraps an object in a new proxy whose
\* path is extended by the key and returns a primitive as it is; a property
\* of a primitive (or cur?.[key] of null and undefined) is undefined.
read(t, cur, key) ==
    IF ~cur.proxy THEN Prim(Undef)
    ELSE LET value == PropGet(Lookup(t, cur.loc), key)
         IN  IF IsObject(value) THEN Ref(Append(cur.loc, key)) ELSE Prim(value)

\* cur[key] = value in strict code; creating a property on a primitive raises TypeError.
write(m, cur, key, value) ==
    IF m.thrown # "none" THEN m
    ELSE IF cur.proxy THEN assign(m, cur.loc, key, value)
    ELSE [m EXCEPT !.thrown = "TypeError"]

\* One turn of the loop of ReactiveProxy.set over an intermediate key:
\* the operation so far and the new `current`.
setStep(m, cur, key) ==
    LET am == ArrayMatch(key)
    IN  IF am # <<>>
        THEN LET m1 == IF ~Truthy(read(m.target, cur, am[1]))
                       THEN write(m, cur, am[1], EmptyArr) ELSE m
                 arr == read(m1.target, cur, am[1])
                 m2 == IF m1.thrown = "none" /\ ~Truthy(read(m1.target, arr, am[2]))
                       THEN write(m1, arr, am[2], EmptyObj) ELSE m1
             IN  [m |-> m2, cur |-> read(m2.target, arr, am[2])]
        ELSE LET c == read(m.target, cur, key)
                 m1 == IF ~Truthy(c) \/ ~TypeofObject(c)
                       THEN write(m, cur, key, EmptyObj) ELSE m
             IN  [m |-> m1, cur |-> read(m1.target, cur, key)]

RECURSIVE setLoop(_, _, _, _)
setLoop(m, cur, keys, value) ==
    IF m.thrown # "none" THEN m
    ELSE IF Len(keys) = 1 THEN write(m, cur, keys[1], value)
    ELSE LET s == setStep(m, cur, Head(keys))
         IN  setLoop(s.m, s.cur, Tail(keys), value)

\* proxy.<k1>.<k2>...: a chain of property reads from the root proxy.
RECURSIVE readAll(_, _, _)
readAll(t, cur, keys) ==
    IF keys = <<>> THEN cur ELSE readAll(t, read(t, cur, Head(keys)), Tail(keys))

\* The value such a chain evaluates to: a primitive, or a new proxy around the object found.
proxyRead(t, loc) ==
    LET r == readAll(t, Ref(<<>>), loc)
    IN  IF r.proxy THEN ProxyOf(Lookup(t, r.loc)) ELSE r.prim

\* ReactiveProxy.set(path, value), from the backing object t.
set(t, path, value) == setLoop(Run(t), Ref(<<>>), path, value)

RECURSIVE getLoop(_, _, _)
getLoop(t, cur, keys) ==
    IF keys = <<>> THEN cur
    ELSE LET am == ArrayMatch(Head(keys))
             next == IF am # <<>> THEN read(t, read(t, cur, am[1]), am[2])
                     ELSE read(t, cur, Head(keys))
         IN  getLoop(t, next, Tail(keys))

\* ReactiveProxy.get(path): a primitive, or a new proxy around the object found.
get(t, path) ==
    LET r == getLoop(t, Ref(<<>>), path)
    IN  IF r.proxy THEN ProxyOf(Lookup(t, r.loc)) ELSE r.prim


----------------------------------------------------------------------------
\* The native array methods, called on the proxy the get trap of createProxy
\* returns for an array (the trap returns obj[prop], the native function, for
\* a method name): they run on the proxy, so each of their steps goes through
\* the traps of createProxy. Steps follow ECMA-262 (Array.prototype.push, pop,
\* shift, unshift).

Length(m, loc) == PropGet(Lookup(m.target, loc), "length").v
HasProperty(m, loc, key) == key \in DOMAIN Lookup(m.target, loc).f

\* Set(O, ToString(n), arg, true) for each argument, then Set(O, "length", n, true).
RECURSIVE pushFrom(_, _, _, _)
pushFrom(m, loc, n, args) ==
    IF args = <<>> THEN assign(m, loc, "length", Num(n))
    ELSE pushFrom(assign(m, loc, IdxStr[n + 1], Head(args)), loc, n + 1, Tail(args))

push(m, loc, args) == pushFrom(m, loc, Length(m, loc), args)

pop(m, loc) ==
    LET len == Length(m, loc)
    IN  IF len = 0 THEN assign(m, loc, "length", Num(0))
        ELSE assign(deleteOrThrow(m, loc, IdxStr[len]), loc, "length", Num(len - 1))

\* Move the element at index from to index to, or delete index to when from is a hole.
move(m, loc, from, to) ==
    IF m.thrown # "none" THEN m
    ELSE IF HasProperty(m, loc, IdxStr[from + 1])
         THEN assign(m, loc, IdxStr[to + 1], PropGet(Lookup(m.target, loc), IdxStr[from + 1]))
         ELSE deleteOrThrow(m, loc, IdxStr[to + 1])

RECURSIVE shiftFrom(_, _, _, _)
shiftFrom(m, loc, k, len) ==
    IF k >= len THEN assign(deleteOrThrow(m, loc, IdxStr[len]), loc, "length", Num(len - 1))
    ELSE shiftFrom(move(m, loc, k, k - 1), loc, k + 1, len)

shift(m, loc) ==
    LET len == Length(m, loc)
    IN  IF len = 0 THEN assign(m, loc, "length", Num(0)) ELSE shiftFrom(m, loc, 1, len)

RECURSIVE unshiftFrom(_, _, _, _)
unshiftFrom(m, loc, k, argCount) ==
    IF k = 0 THEN m
    ELSE unshiftFrom(move(m, loc, k - 1, k + argCount - 1), loc, k - 1, argCount)

RECURSIVE insertFrom(_, _, _, _)
insertFrom(m, loc, j, args) ==
    IF args = <<>> THEN m
    ELSE insertFrom(assign(m, loc, IdxStr[j + 1], Head(args)), loc, j + 1, Tail(args))

unshift(m, loc, args) ==
    LET len == Length(m, loc)
        moved == IF Len(args) > 0 THEN unshiftFrom(m, loc, len, Len(args)) ELSE m
    IN  assign(insertFrom(moved, loc, 0, args), loc, "length", Num(len + Len(args)))

----------------------------------------------------------------------------
\* The subscription registry.

SeqRange(s) == {s[i] : i \in 1..Len(s)}
Without(s, x) == SelectSeq(s, LAMBDA y : y # x)

\* observers after observe(path, callback): a Set keeps one entry per callback,
\* at the place of its first insertion.
observeCall(obs, path, cb) ==
    LET old == IF path \in DOMAIN obs THEN obs[path] ELSE <<>>
        new == IF cb \in SeqRange(old) THEN old ELSE Append(old, cb)
    IN  [p \in (DOMAIN obs) \cup {path} |-> IF p = path THEN new ELSE obs[p]]

\* An unsubscribe that drops every callback of the path.
unsubscribeCallAll(obs, path, cb) ==
    IF path \in DOMAIN obs THEN [obs EXCEPT ![path] = <<>>] ELSE obs

\* observers after a call of the function observe(path, callback) returned:
\* this.observers.get(path)?.delete(callback)
unsubscribeCall(obs, path, cb) ==
    IF path \in DOMAIN obs THEN [obs EXCEPT ![path] = Without(@, cb)] ELSE obs

Registered(obs, path, cb) == path \in DOMAIN obs /\ cb \in SeqRange(obs[path])


----------------------------------------------------------------------------
\* Inputs of the operations.

\* Path strings given to observe.
ObservePaths ==
    { <<"count">>, <<"items">>, <<"items[0]">>, <<"items", "0">>, <<"items[2]">>,
      <<"user", "address[0]", "city">>, <<"user", "address", "0", "city">>,
      <<"user", "address", "0">> }

\* Path strings given to set.
SetPaths ==
    { <<"count">>, <<"items[0]">>, <<"user", "address[0]", "city">>, <<"a", "b">>,
      <<"items[2]", "x">>, <<"items[0]", "x">>, <<"count", "x">> }

SetValues == {Num(0), Num(5), EmptyObj}

\* Properties assigned through the proxy (proxy.count = v, proxy.items[0] = v, ...):
\* the property names from the root, the last one being the property written.
WriteTargets ==
    { <<"count">>, <<"items", "0">>, <<"user", "address", "0", "city">>, <<"user", "x">> }

WriteValues == {Num(0), Num(5)}

\* Properties deleted through the proxy.
DeleteTargets ==
    { <<"count">>, <<"items", "0">>, <<"user", "address", "0", "city">>, <<"items", "length">> }

\* Arrays whose methods are called through the proxy, and the argument lists.
ArrayLocs == { <<"items">> }
ArgLists == { <<Num(3)>>, <<Num(0)>>, <<Num(3), Num(4)>> }

Front(s) == SubSeq(s, 1, Len(s) - 1)
Last(s) == s[Len(s)]

\* The last operation: its kind, the path (or property location) it was given,
\* the value written, the value found there before, the arguments of an array
\* method, the callback of an observe or unsubscribe, and whether the
\* unsubscribe function had been called before.
Op(kind, path, value, old, args, cb, again) ==
    [kind |-> kind, path |-> path, value |-> value, old |-> old, args |-> args,
     cb |-> cb, again |-> again]

----------------------------------------------------------------------------
\* Update Scheduler (class ReactiveUpdate).
\*
\* A changeSet (DOMChanges) is a function from the fields it gives to their
\* values.  The value of text and html is the string; the value of
\* attributes, styles, classes and dataset is a name n, standing for the
\* one-entry record {n: ...}; the empty name is one the DOM rejects
\* (classList.add("") and setAttribute("", v) throw).

NoRaf == 0

Nodes == {"n1", "n2"}

\* element.matches(selector): n1 is <div class="a">, n2 is <div>.
matches(element, selector) ==
    <<element, selector>> \in { <<"n1", "div">>, <<"n1", ".a">>, <<"n2", "div">> }

priorityOrder == [critical |-> 0, high |-> 1, normal |-> 2, low |-> 3]

\* { ...changes, ...existing }: the fields of the earlier changeSet win.
MergeEarlier(existing, changes) ==
    [k \in DOMAIN existing \cup DOMAIN changes |->
        IF k \in DOMAIN existing THEN existing[k] ELSE changes[k]]

\* { ...existing, ...changes }
Merge(existing, changes) ==
    [k \in DOMAIN existing \cup DOMAIN changes |->
        IF k \in DOMAIN changes THEN changes[k] ELSE existing[k]]

\* An UpdateTask.  `call` is the number of the scheduleUpdate call that made it
\* (0 for a task made by endBatch); the code does not have it.
Task(element, changes, priority, timestamp, call) ==
    [element |-> element, changes |-> changes, priority |-> priority,
     timestamp |-> timestamp, call |-> call]

\* Map.set(element, value) on a Map kept as the sequence of its values: an
\* existing key keeps its place, a new key goes last.
MapSet(map, element, value) ==
    IF \E i \in 1..Len(map) : map[i].element = element
    THEN [i \in 1..Len(map) |-> IF map[i].element = element THEN value ELSE map[i]]
    ELSE Append(map, value)

\* A delete that removes nothing.
MapKeep(map, element) == map

\* Map.delete(element)
MapDelete(map, element) == SelectSeq(map, LAMBDA t : t.element # element)

\* An entry of the trace: applyUpdate entered ("apply"), a registered handler
\* invoked ("handler"), the default handler entered ("default"), a field
\* written to the node by the default handler (the name of the field, with the
\* changeSet cut down to that field), the alphabet:updated event dispatched
\* ("updated").
Ev(ev, selector, handler, element, changes) ==
    [ev |-> ev, selector |-> selector, handler |-> handler, element |-> element,
     changes |-> changes]

Log(u, ev, selector, handler, element, changes) ==
    [u EXCEPT !.trace = Append(@, Ev(ev, selector, handler, element, changes))]

\* requestUpdate()
requestUpdate(u) ==
    [u EXCEPT !.frames = (IF u.rafId # NoRaf THEN @ \ {u.rafId} ELSE @) \cup {u.handle},
              !.rafId = u.handle,
              !.handle = @ + 1]

\* scheduleUpdate that merges the changeSet into the one of the pending task.
scheduleUpdateMerging(u, element, changes, priority) ==
    LET old == {u.scheduledUpdates[i].changes : i \in {j \in 1..Len(u.scheduledUpdates) :
                                                        u.scheduledUpdates[j].element = element}}
        merged == IF old = {} THEN changes ELSE Merge(CHOOSE c \in old : TRUE, changes)
        task == Task(element, IF u.batchMode THEN changes ELSE merged, priority, u.clock,
                     u.ncalls + 1)
        u1 == [u EXCEPT !.ncalls = @ + 1]
    IN  IF u1.batchMode
        THEN [u1 EXCEPT !.batchQueue = Append(@, task)]
        ELSE requestUpdate([u1 EXCEPT !.scheduledUpdates = MapSet(@, element, task)])

\* scheduleUpdate that does not look at the batch-mode flag.
scheduleUpdateUnbatched(u, element, changes, priority) ==
    requestUpdate([u EXCEPT !.ncalls = @ + 1,
                            !.scheduledUpdates =
                                MapSet(@, element,
                                       Task(element, changes, priority, u.clock, u.ncalls + 1))])

\* scheduleUpdate(element, changes, priority)
scheduleUpdate(u, element, changes, priority) ==
    LET task == Task(element, changes, priority, u.clock, u.ncalls + 1)
        u1 == [u EXCEPT !.ncalls = @ + 1]
    IN  IF u1.batchMode
        THEN [u1 EXCEPT !.batchQueue = Append(@, task)]
        ELSE requestUpdate([u1 EXCEPT !.scheduledUpdates = MapSet(@, element, task)])

\* startBatch()
startBatch(u) == [u EXCEPT !.batchMode = TRUE, !.batchQueue = <<>>]

\* The Map `grouped` of endBatch after the tasks of queue, as the sequence of
\* its entries [element, changes].
RECURSIVE group(_, _)
group(grouped, queue) ==
    IF queue = <<>> THEN grouped
    ELSE LET task == Head(queue)
             g1 == IF \E i \in 1..Len(grouped) : grouped[i].element = task.element
                   THEN grouped
                   ELSE Append(grouped, [element |-> task.element, changes |-> <<>>])
             existing == (CHOOSE i \in 1..Len(g1) : g1[i].element = task.element)
         IN  group(MapSet(g1, task.element,
                          [element |-> task.element,
                           changes |-> Merge(g1[existing].changes, task.changes)]),
                   Tail(queue))

\* grouped.forEach(... scheduledUpdates.set ...)
RECURSIVE setGrouped(_, _, _)
setGrouped(map, grouped, timestamp) ==
    IF grouped = <<>> THEN map
    ELSE setGrouped(MapSet(map, Head(grouped).element,
                           Task(Head(grouped).element, Head(grouped).changes,
                                "normal", timestamp, 0)),
                    Tail(grouped), timestamp)

\* endBatch()
endBatch(u) ==
    requestUpdate(
        [u EXCEPT !.batchMode = FALSE,
                  !.scheduledUpdates = setGrouped(@, group(<<>>, u.batchQueue), u.clock),
                  !.batchQueue = <<>>])

\* clearUpdates()
clearUpdates(u) ==
    [u EXCEPT !.scheduledUpdates = <<>>,
              !.batchQueue = <<>>,
              !.frames = IF u.rafId # NoRaf THEN @ \ {u.rafId} ELSE @,
              !.rafId = NoRaf]

\* Registered handlers.  hOk returns, hThrow throws, hSchedSelf calls
\* scheduleUpdate for the node it is given, hSchedOther for the other node,
\* hClear calls clearUpdates.
Handlers == {"hOk", "hThrow", "hSchedSelf", "hSchedOther", "hClear"}

Other(element) == CHOOSE n \in Nodes : n # element

\* The changeSet a handler schedules.
Rescheduled == [text |-> "r"]

\* handler(element, changes): the scheduler after the call, and whether it threw.
callHandler(u, selector, handler, element, changes) ==
    LET u1 == Log(u, "handler", selector, handler, element, changes)
    IN  CASE handler = "hThrow" -> [u |-> u1, threw |-> TRUE]
          [] handler = "hSchedSelf" ->
                [u |-> scheduleUpdate(u1, element, Rescheduled, "normal"), threw |-> FALSE]
          [] handler = "hSchedOther" ->
                [u |-> scheduleUpdate(u1, Other(element), Rescheduled, "normal"),
                 threw |-> FALSE]
          [] handler = "hClear" -> [u |-> clearUpdates(u1), threw |-> FALSE]
          [] OTHER -> [u |-> u1, threw |-> FALSE]

\* handlers.forEach(handler => { try ... catch ... }): the scheduler after it
\* and the flag handlerApplied.
RECURSIVE forEachHandler(_, _, _, _, _, _)
forEachHandler(u, selector, handlers, element, changes, handlerApplied) ==
    IF handlers = <<>> THEN [u |-> u, handlerApplied |-> handlerApplied]
    ELSE LET r == callHandler(u, selector, Head(handlers), element, changes)
         IN  forEachHandler(IF r.threw THEN [r.u EXCEPT !.errors = @ + 1] ELSE r.u,
                            selector, Tail(handlers), element, changes,
                            handlerApplied \/ ~r.threw)

\* An order of the fields that starts with the classes.
FieldOrderClassesFirst == <<"classes", "text", "html", "attributes", "styles", "dataset">>

\* The order in which defaultUpdateHandler looks at the fields.
FieldOrder == <<"text", "html", "attributes", "styles", "classes", "dataset">>

\* One field of the default handler: the write to the node, or the exception
\* of setAttribute and classList.add for a name the DOM rejects.
applyField(u, element, field, value) ==
    IF field \in {"attributes", "classes"} /\ value = ""
    THEN [u EXCEPT !.thrown = "DOMException"]
    ELSE Log(u, field, "", "", element, [f \in {field} |-> value])

RECURSIVE applyFields(_, _, _, _)
applyFields(u, element, changes, fields) ==
    IF fields = <<>> \/ u.thrown # "none" THEN u
    ELSE applyFields(IF Head(fields) \in DOMAIN changes
                     THEN applyField(u, element, Head(fields), changes[Head(fields)])
                     ELSE u,
                     element, changes, Tail(fields))

\* defaultUpdateHandler(element, changes)
defaultUpdateHandler(u, element, changes) ==
    applyFields(Log(u, "default", "", "", element, changes), element, changes, FieldOrder)

\* applyUpdate(element, changes)
applyUpdate(u, element, changes) ==
    LET u0 == Log(u, "apply", "", "", element, changes)
        matching == {i \in 1..Len(u0.updateHandlers) :
                        matches(element, u0.updateHandlers[i].selector)}
        first == CHOOSE i \in matching : \A j \in matching : i <= j
        r == IF matching = {} THEN [u |-> u0, handlerApplied |-> FALSE]
             ELSE forEachHandler(u0, u0.updateHandlers[first].selector,
                                 u0.updateHandlers[first].handlers, element, changes, FALSE)
        u2 == IF r.handlerApplied THEN r.u ELSE defaultUpdateHandler(r.u, element, changes)
    IN  IF u2.thrown # "none" THEN u2
        ELSE Log(u2, "updated", "", "", element, changes)

\* The comparator of processUpdates.
compare(a, b) ==
    LET priorityDiff == priorityOrder[a.priority] - priorityOrder[b.priority]
    IN  IF priorityDiff # 0 THEN priorityDiff ELSE a.timestamp - b.timestamp

\* Array.prototype.sort is stable: a task goes after those that do not compare greater.
RECURSIVE insert(_, _)
insert(sorted, task) ==
    IF sorted = <<>> THEN <<task>>
    ELSE IF compare(Head(sorted), task) <= 0
         THEN <<Head(sorted)>> \o insert(Tail(sorted), task)
         ELSE <<task>> \o sorted

RECURSIVE sort(_)
sort(tasks) ==
    IF tasks = <<>> THEN <<>>
    ELSE insert(sort(SubSeq(tasks, 1, Len(tasks) - 1)), tasks[Len(tasks)])

\* tasks.forEach(task => { applyUpdate; scheduledUpdates.delete }): an exception
\* leaving applyUpdate leaves forEach.
RECURSIVE forEachTask(_, _)
forEachTask(u, tasks) ==
    IF tasks = <<>> \/ u.thrown # "none" THEN u
    ELSE LET u1 == applyUpdate(u, Head(tasks).element, Head(tasks).changes)
         IN  forEachTask(IF u1.thrown # "none" THEN u1
                         ELSE [u1 EXCEPT !.scheduledUpdates =
                                            MapDelete(@, Head(tasks).element)],
                         Tail(tasks))

\* processUpdates()
processUpdates(u) == forEachTask(u, sort(u.scheduledUpdates))

\* The callback given to requestAnimationFrame, run by the browser.
frameCallback(u, id) ==
    LET u1 == processUpdates([u EXCEPT !.frames = @ \ {id}])
    IN  IF u1.thrown # "none" THEN u1 ELSE [u1 EXCEPT !.rafId = NoRaf]

\* updateImmediate that also drops the pending task of the node.
updateImmediateDropping(u, element, changes) ==
    [applyUpdate(u, element, changes) EXCEPT !.scheduledUpdates = MapDelete(@, element)]

\* updateImmediate(element, changes)
updateImmediate(u, element, changes) == applyUpdate(u, element, changes)

\* registerHandler(elementSelector, handler)
registerHandler(handlers, elementSelector, handler) ==
    IF \E i \in 1..Len(handlers) : handlers[i].selector = elementSelector
    THEN [i \in 1..Len(handlers) |->
            IF handlers[i].selector = elementSelector
            THEN [handlers[i] EXCEPT !.handlers = Append(@, handler)]
            ELSE handlers[i]]
    ELSE Append(handlers, [selector |-> elementSelector, handlers |-> <<handler>>])

\* The scheduler at the start of an operation.
Scheduler ==
    [updateHandlers |-> updateHandlers, scheduledUpdates |-> scheduledUpdates,
     rafId |-> rafId, batchMode |-> batchMode, batchQueue |-> batchQueue,
     frames |-> frames, handle |-> handle, clock |-> clock,
     ncalls |-> ncalls, trace |-> <<>>, thrown |-> "none", errors |-> 0]

\* The last scheduler operation: its kind and arguments.
Called(kind, element, changes, priority) ==
    [kind |-> kind, element |-> element, changes |-> changes, priority |-> priority]

\* new ReactiveUpdate()
InitUpdate ==
    /\ updateHandlers = <<>>
    /\ scheduledUpdates = <<>>
    /\ rafId = NoRaf
    /\ batchMode = FALSE
    /\ batchQueue = <<>>
    /\ frames = {}
    /\ handle = 1
    /\ clock = 0
    /\ trace = <<>>
    /\ raised = "none"
    /\ errors = 0
    /\ lastCall = Called("new", "", <<>>, "")
    /\ ncalls = 0

----------------------------------------------------------------------------
\* Document Observation Layer (class ReactiveDOM).
\*
\* The document is three elements: r, which stays the top of the tree, and a
\* and x, which the application inserts, moves and removes.  An element may
\* hold one text node; a write to it is a characterData mutation below the
\* element.  Every call passes the default options ({}), so the child watch
\* does not observe the subtree.  A MutationObserver is a record [id, element,
\* concern, records]; the browser delivers the queued records in one microtask,
\* observer by observer, and disconnect() empties the queue of the observer.
\* The order of the observers in a delivery is the order of their creation
\* (browsers that sort them by creation) or the order in which they got their
\* first record of the turn (the list of pending observers of the DOM
\* standard): the model takes either.  A childList record is not queued for a
\* content watch, whose callback ignores it (line 81).

DomNodes == {"r", "a", "x"}
Movable == {"a", "x"}

\* Elements in document order among siblings.
NodeOrder == <<"r", "a", "x">>

RECURSIVE Ancestors(_, _)
Ancestors(tree, n) ==
    IF tree[n] = "" THEN {} ELSE {tree[n]} \cup Ancestors(tree, tree[n])

\* root.querySelectorAll('*'): the elements below the listed ones, in document order.
RECURSIVE Preorder(_, _)
Preorder(tree, nodes) ==
    IF nodes = <<>> THEN <<>>
    ELSE <<Head(nodes)>>
         \o Preorder(tree, SelectSeq(NodeOrder, LAMBDA c : tree[c] = Head(nodes)))
         \o Preorder(tree, Tail(nodes))

querySelectorAll(tree, root) ==
    Preorder(tree, SelectSeq(NodeOrder, LAMBDA c : tree[c] = root))

\* An entry of the trace of the layer: a semantic event dispatched on a
\* target (ev is its name, released tells whether cleanupElement had run for
\* the target and it had not been made reactive again), a disconnect() of the
\* MutationObserver id, and the end of cleanupElement ("cleaned": handles are
\* the ids the map held for the element, left says where the element or its
\* handles still are when cleanupElement returns).
DomEv(ev, node, isReleased, id, tracked, left) ==
    [ev |-> ev, target |-> node, released |-> isReleased, id |-> id,
     handles |-> tracked, left |-> left]

\* element.dispatchEvent(new CustomEvent('alphabet:' + ev))
dispatchEvent(d, ev, element) ==
    [d EXCEPT !.dtrace = Append(@, DomEv(ev, element, element \in d.released, 0, <<>>, {}))]

\* new MutationObserver(callback); observer.observe(element, ...);
\* addObserver(element, observer)
observe(d, element, concern) ==
    [d EXCEPT !.mos = Append(@, [id |-> d.nextMo, element |-> element,
                                 concern |-> concern, records |-> <<>>]),
              !.elementObservers[element] = Append(@, d.nextMo),
              !.nextMo = @ + 1]

\* makeReactive(element)
makeReactive(d, element) ==
    IF element \in d.reactiveElements THEN d
    ELSE observe(observe(observe([d EXCEPT !.reactiveElements = @ \cup {element},
                                           !.released = @ \ {element}],
                                 element, "attributes"),
                         element, "content"),
                 element, "children")

RECURSIVE makeReactiveEach(_, _)
makeReactiveEach(d, elements) ==
    IF elements = <<>> THEN d
    ELSE makeReactiveEach(makeReactive(d, Head(elements)), Tail(elements))

\* makeReactiveSubtree(root)
makeReactiveSubtree(d, tree, root) ==
    observe(makeReactiveEach(makeReactive(d, root), querySelectorAll(tree, root)),
            root, "newElements")

\* queueUpdate that queues a microtask on every call.
queueUpdateEager(d, element) ==
    [d EXCEPT !.updateQueue = IF \E i \in 1..Len(@) : @[i] = element THEN @
                              ELSE Append(@, element),
              !.isUpdating = TRUE,
              !.drains = @ + 1]

\* queueUpdate(element)
queueUpdate(d, element) ==
    LET d1 == IF \E i \in 1..Len(d.updateQueue) : d.updateQueue[i] = element THEN d
              ELSE [d EXCEPT !.updateQueue = Append(@, element)]
    IN  IF d1.isUpdating THEN d1
        ELSE [d1 EXCEPT !.isUpdating = TRUE, !.drains = @ + 1]

\* observers.forEach(observer => observer.disconnect())
RECURSIVE disconnectEach(_, _, _)
disconnectEach(d, element, ids) ==
    IF ids = <<>> THEN d
    ELSE disconnectEach(
            [d EXCEPT !.mos = SelectSeq(@, LAMBDA o : o.id # Head(ids)),
                      !.notifyList = SelectSeq(@, LAMBDA id : id # Head(ids)),
                      !.dtrace = Append(@, DomEv("disconnect", element, FALSE, Head(ids),
                                                 <<>>, {}))],
            element, Tail(ids))

\* cleanupElement that forgets the handles of the element without
\* disconnecting them.
cleanupElementConnected(d, element) ==
    [d EXCEPT !.elementObservers[element] = <<>>,
              !.reactiveElements = @ \ {element},
              !.updateQueue = SelectSeq(@, LAMBDA e : e # element),
              !.released = @ \cup {element},
              !.dtrace = Append(@, DomEv("cleaned", element, TRUE, 0,
                                         d.elementObservers[element], {"connected"}))]

\* Where an element and the handles ids are still known to the layer.
StillKnown(d, element, ids) ==
    {w \in {"map", "set", "queue", "connected"} :
        \/ w = "map" /\ d.elementObservers[element] # <<>>
        \/ w = "set" /\ element \in d.reactiveElements
        \/ w = "queue" /\ \E i \in 1..Len(d.updateQueue) : d.updateQueue[i] = element
        \/ w = "connected" /\ \E i \in 1..Len(d.mos), j \in 1..Len(ids) :
                                d.mos[i].id = ids[j]}

\* cleanupElement that leaves the element in the intent queue.
cleanupElementQueued(d, element) ==
    LET ids == d.elementObservers[element]
        d1 == [disconnectEach(d, element, ids) EXCEPT
                  !.elementObservers[element] = <<>>,
                  !.reactiveElements = @ \ {element},
                  !.released = @ \cup {element}]
    IN  [d1 EXCEPT !.dtrace = Append(@, DomEv("cleaned", element, TRUE, 0, ids,
                                              StillKnown(d1, element, ids)))]

\* cleanupElement(element)
cleanupElement(d, element) ==
    LET ids == d.elementObservers[element]
        d1 == [disconnectEach(d, element, ids) EXCEPT
                  !.elementObservers[element] = <<>>,
                  !.reactiveElements = @ \ {element},
                  !.updateQueue = SelectSeq(@, LAMBDA e : e # element),
                  !.released = @ \cup {element}]
    IN  [d1 EXCEPT !.dtrace = Append(@, DomEv("cleaned", element, TRUE, 0, ids,
                                              StillKnown(d1, element, ids)))]

\* The callback of a MutationObserver for one record: handleAttributeChange,
\* handleContentChange, handleElementAdded and handleElementRemoved, and the
\* callback of observeNewElements.
callback(d, tree, o, record) ==
    CASE o.concern = "attributes" /\ record.type = "attributes" ->
            dispatchEvent(queueUpdate(d, o.element), "attribute-change", o.element)
      [] o.concern = "content" /\ record.type = "characterData" ->
            dispatchEvent(queueUpdate(d, o.element), "content-change", o.element)
      [] o.concern = "children" /\ record.type = "childList" /\ record.added # "" ->
            dispatchEvent(queueUpdate(makeReactive(d, record.added), o.element),
                          "child-added", o.element)
      [] o.concern = "children" /\ record.type = "childList" /\ record.removed # "" ->
            dispatchEvent(queueUpdate(cleanupElement(d, record.removed), o.element),
                          "child-removed", o.element)
      [] o.concern = "newElements" /\ record.type = "childList" /\ record.added # "" ->
            makeReactiveSubtree(d, tree, record.added)
      [] OTHER -> d

\* mutations.forEach(mutation => ...)
RECURSIVE forEachMutation(_, _, _, _)
forEachMutation(d, tree, o, records) ==
    IF records = <<>> THEN d
    ELSE forEachMutation(callback(d, tree, o, Head(records)), tree, o, Tail(records))

\* The microtask that delivers the queued records: each observer that is
\* still connected and has records is called with them, in creation order.
RECURSIVE notifyObservers(_, _, _)
notifyObservers(d, tree, ids) ==
    IF ids = <<>> THEN d
    ELSE LET at == {i \in 1..Len(d.mos) : d.mos[i].id = Head(ids)}
         IN  IF at = {} THEN notifyObservers(d, tree, Tail(ids))
             ELSE LET i == CHOOSE k \in at : TRUE
                      o == d.mos[i]
                  IN  notifyObservers(
                         forEachMutation([d EXCEPT !.mos[i].records = <<>>], tree, o,
                                         o.records),
                         tree, Tail(ids))

\* The MutationObserver o gets a record of a mutation of `node`: of its
\* attributes, of the text node below it, or of its child list.
Interested(o, tree, type, node) ==
    CASE type = "attributes" -> o.concern = "attributes" /\ o.element = node
      [] type = "characterData" ->
            o.concern = "content" /\ o.element \in {node} \cup Ancestors(tree, node)
      [] OTHER ->
            \/ o.concern = "children" /\ o.element = node
            \/ o.concern = "newElements" /\ o.element \in {node} \cup Ancestors(tree, node)

\* The interested observers as the browser visits them: those registered on
\* the node, then those on its parent, and so on upwards.
RECURSIVE InterestedFrom(_, _, _, _)
InterestedFrom(d, tree, type, e) ==
    LET here == SelectSeq(d.mos, LAMBDA o : o.element = e /\ o.records # <<>>
                                            /\ \A i \in 1..Len(d.notifyList) :
                                                   d.notifyList[i] # o.id)
        ids == [i \in 1..Len(here) |-> here[i].id]
    IN  IF tree[e] = "" THEN ids ELSE ids \o InterestedFrom(d, tree, type, tree[e])

\* The browser queues the record of a mutation.
queueRecord(d, tree, type, node, added, removed) ==
    LET d1 == [d EXCEPT !.mos = [i \in 1..Len(@) |->
                  IF Interested(@[i], tree, type, node)
                  THEN [@[i] EXCEPT !.records =
                            Append(@, [type |-> type, added |-> added, removed |-> removed])]
                  ELSE @[i]]]
    IN  [d1 EXCEPT !.notifyList = @ \o InterestedFrom(d1, tree, type, node)]

\* processUpdateQueue(): performUpdate for every element of the queue.
RECURSIVE performUpdates(_, _)
performUpdates(d, elements) ==
    IF elements = <<>> THEN d
    ELSE performUpdates(dispatchEvent(d, "update", Head(elements)), Tail(elements))

\* processUpdateQueue that leaves isUpdating set.
processUpdateQueueBusy(d) ==
    [performUpdates(d, d.updateQueue) EXCEPT !.updateQueue = <<>>]

processUpdateQueue(d) ==
    [performUpdates(d, d.updateQueue) EXCEPT !.updateQueue = <<>>, !.isUpdating = FALSE]

\* destroy()
destroy(d) ==
    [d EXCEPT !.mos = <<>>,
              !.notifyList = <<>>,
              !.elementObservers = [n \in DomNodes |-> <<>>],
              !.reactiveElements = {},
              !.updateQueue = <<>>]

\* The layer as the operations see it.
Layer ==
    [reactiveElements |-> reactiveElements, elementObservers |-> elementObservers,
     mos |-> mos, nextMo |-> nextMo, notifyList |-> notifyList, updateQueue |-> updateQueue,
     isUpdating |-> isUpdating, drains |-> drains, released |-> released,
     dtrace |-> <<>>]

\* new ReactiveDOM(), beside a document.
InitLayer(tree) ==
    /\ parentOf = tree
    /\ reactiveElements = {}
    /\ elementObservers = [n \in DomNodes |-> <<>>]
    /\ mos = <<>>
    /\ nextMo = 1
    /\ notifyList = <<>>
    /\ updateQueue = <<>>
    /\ isUpdating = FALSE
    /\ drains = 0
    /\ released = {}
    /\ roots = {}
    /\ inserted = {}
    /\ dtrace = <<>>
    /\ dcall = [kind |-> "new", element |-> "", parent |-> ""]
    /\ nwrites = 0
    /\ nmake = 0

\* A document that holds r alone, a and x being detached elements.
InitDom == InitLayer([n \in DomNodes |-> ""])

----------------------------------------------------------------------------
\* Event Registry (event.ts).  The elements are the three of the document
\* above in one fixed tree: r holds a, a holds x.  A handler is a function of
\* the application that returns without touching the registry or the event; a
\* listener option other than capture (once, passive, signal) is not modelled.

MaxEvents == 4      \* operations on listeners per behaviour
MaxCaptures == 2    \* capture() calls per behaviour

Native == 0         \* the addEventListener of the platform

\* <section id="r"> <div id="a"> <div id="x"/> </div> </section>
EventTree == [n \in DomNodes |-> IF n = "a" THEN "r" ELSE IF n = "x" THEN "a" ELSE ""]

Selectors == {"#x", "div", "section", ".none"}

\* The elements a selector matches.
Selected ==
    [s \in Selectors |->
        IF s = "#x" THEN {"x"}
        ELSE IF s = "div" THEN {"a", "x"}
        ELSE IF s = "section" THEN {"r"}
        ELSE {}]

\* element.closest(selector): the nearest ancestor-or-self that matches, "" for null.
RECURSIVE closest(_, _)
closest(element, selector) ==
    IF element = "" THEN ""
    ELSE IF element \in Selected[selector] THEN element
    ELSE closest(EventTree[element], selector)

\* parent.contains(node): node is parent or a descendant of it.
contains(parent, node) == node = parent \/ parent \in Ancestors(EventTree, node)

\* Array.prototype.indexOf, counted from 1; 0 stands for -1.
indexOf(s, x) ==
    IF \E i \in 1..Len(s) : s[i] = x
    THEN CHOOSE i \in 1..Len(s) : s[i] = x /\ \A j \in 1..(i - 1) : s[j] # x
    ELSE 0

\* s.splice(index, 1) after index = s.indexOf(x), guarded by index > -1.
spliceFirst(s, x) ==
    LET index == indexOf(s, x)
    IN  IF index > 0 THEN SubSeq(s, 1, index - 1) \o SubSeq(s, index + 1, Len(s)) ELSE s

\* map.get(key) of a Map of arrays, <<>> when the key is absent.
GetList(map, key) == IF key \in DOMAIN map THEN map[key] ELSE <<>>

\* A function that can be attached as a listener.  A handler of the
\* application is known by its name, the delegatedHandler closure of
\* delegate() by its binding; a wrappedListener closure of a patch has an id of
\* its own and calls the callbacks of the patches in wraps before the function
\* it wraps.
HandlerFn(handler) ==
    [base |-> "handler", handler |-> handler, binding |-> 0, wraps |-> <<>>, id |-> 0]
DelegatedFn(binding) ==
    [base |-> "delegated", handler |-> "", binding |-> binding, wraps |-> <<>>, id |-> 0]

\* The native addEventListener: a listener with the same type, callback and
\* capture flag is not added again.
originalAddEventListener(e, element, type, fn, useCapture) ==
    LET entry == [type |-> type, fn |-> fn, capture |-> useCapture]
    IN  IF entry \in SeqRange(e.listeners[element]) THEN e
        ELSE [e EXCEPT !.listeners[element] = Append(@, entry)]

\* The native removeEventListener(type, callback), called without options:
\* it removes the listener with that type and callback whose capture flag is false.
removeEventListener(e, element, type, fn) ==
    [e EXCEPT !.listeners[element] =
        SelectSeq(@, LAMBDA l : l # [type |-> type, fn |-> fn, capture |-> FALSE])]

\* A call of the function f, which is Native or the patch capture() created
\* as patches[f] (lines 136-151): for its event name the patch wraps the
\* listener and hands the wrapper to the function it replaced.
RECURSIVE callAddEventListener(_, _, _, _, _, _)
callAddEventListener(e, f, element, type, fn, useCapture) ==
    IF f = Native THEN originalAddEventListener(e, element, type, fn, useCapture)
    ELSE IF type = e.patches[f].eventName
    THEN callAddEventListener([e EXCEPT !.nextListener = @ + 1], e.patches[f].original,
             element, type,
             [fn EXCEPT !.wraps = <<f>> \o @, !.id = e.nextListener], useCapture)
    ELSE callAddEventListener(e, e.patches[f].original, element, type, fn, useCapture)

\* element.addEventListener(type, fn, options): whatever the prototype holds now.
attach(e, element, type, fn, useCapture) ==
    callAddEventListener(e, e.addEventListener, element, type, fn, useCapture)

\* on(element, eventName, handler, options), lines 15-35.
on(e, element, eventName, handler, useCapture) ==
    LET elementEvents == IF element \in DOMAIN e.elementEventMap
                         THEN e.elementEventMap[element] ELSE [n \in {} |-> <<>>]
        stored ==
            [e EXCEPT !.eventRegistry =
                          Put(@, eventName, Append(GetList(@, eventName), handler)),
                      !.elementEventMap =
                          Put(@, element,
                              Put(elementEvents, eventName,
                                  Append(GetList(elementEvents, eventName), handler)))]
    IN  attach(stored, element, eventName, HandlerFn(handler), useCapture)

\* handlers.forEach(h => element.removeEventListener(eventName, h)).
RECURSIVE removeEach(_, _, _, _)
removeEach(e, element, eventName, handlers) ==
    IF handlers = <<>> THEN e
    ELSE removeEach(removeEventListener(e, element, eventName, HandlerFn(Head(handlers))),
                    element, eventName, Tail(handlers))

\* off(element, eventName, handler?), lines 45-77; handler is "" when absent.
off(e, element, eventName, handler) ==
    IF handler = ""
    THEN IF element \in DOMAIN e.elementEventMap
            /\ eventName \in DOMAIN e.elementEventMap[element]
         THEN [removeEach(e, element, eventName, e.elementEventMap[element][eventName])
                  EXCEPT !.elementEventMap[element] = Drop(@, eventName)]
         ELSE e
    ELSE LET removed == removeEventListener(e, element, eventName, HandlerFn(handler))
             global == IF eventName \in DOMAIN removed.eventRegistry
                       THEN [removed EXCEPT !.eventRegistry[eventName] =
                                                spliceFirst(@, handler)]
                       ELSE removed
         IN  IF element \in DOMAIN global.elementEventMap
                /\ eventName \in DOMAIN global.elementEventMap[element]
             THEN [global EXCEPT !.elementEventMap[element][eventName] =
                                     spliceFirst(@, handler)]
             ELSE global

\* delegate(parent, selector, eventName, handler), lines 82-100: the closure
\* delegatedHandler is the binding added last.
delegate(e, parent, selector, eventName, handler) ==
    LET key == eventName \o ":" \o selector
        bound ==
            [e EXCEPT !.delegatedEvents = Put(@, key, Append(GetList(@, key), handler)),
                      !.bindings = Append(@, [parent |-> parent, selector |-> selector,
                                              eventName |-> eventName, handler |-> handler])]
    IN  attach(bound, parent, eventName, DelegatedFn(Len(bound.bindings)), FALSE)

\* The function delegate() returned for the binding, lines 103-112.
undelegate(e, binding) ==
    LET b == e.bindings[binding]
        key == b.eventName \o ":" \o b.selector
        spliced == IF key \in DOMAIN e.delegatedEvents
                   THEN [e EXCEPT !.delegatedEvents[key] = spliceFirst(@, b.handler)]
                   ELSE e
    IN  removeEventListener(spliced, b.parent, b.eventName, DelegatedFn(binding))

\* A call the dispatch of an event made: a capture callback (with the event
\* and this), a handler of on() (with the event) or a handler of delegate()
\* (with the event and the matching element); at is the element whose
\* listener ran, origin is event.target and by is the patch or the binding
\* whose closure made the call (0 for a listener that is the handler itself).
Invocation(kind, name, at, origin, arg, by) ==
    [kind |-> kind, name |-> name, at |-> at, origin |-> origin, arg |-> arg, by |-> by]

\* callback(event, this) of each patch that wrapped the listener, outermost first.
RECURSIVE callWrappers(_, _, _, _)
callWrappers(e, wraps, at, origin) ==
    IF wraps = <<>> THEN e
    ELSE callWrappers(
             [e EXCEPT !.invoked =
                 Append(@, Invocation("callback", e.patches[Head(wraps)].callback,
                                      at, origin, at, Head(wraps)))],
             Tail(wraps), at, origin)

\* delegatedHandler without the test parent.contains(matchingElement).
delegatedHandlerUnbounded(e, binding, at, origin) ==
    LET b == e.bindings[binding]
        matchingElement == closest(origin, b.selector)
    IN  IF matchingElement # ""
        THEN [e EXCEPT !.invoked =
                 Append(@, Invocation("delegated", b.handler, at, origin, matchingElement,
                                      binding))]
        ELSE e

\* The closure delegatedHandler of a binding, lines 91-98.
delegatedHandler(e, binding, at, origin) ==
    LET b == e.bindings[binding]
        matchingElement == closest(origin, b.selector)
    IN  IF matchingElement # "" /\ contains(b.parent, matchingElement)
        THEN [e EXCEPT !.invoked =
                 Append(@, Invocation("delegated", b.handler, at, origin, matchingElement,
                                      binding))]
        ELSE e

\* One listener runs: the wrappers' callbacks (lines 138-145), then the
\* function that was registered.
callListener(e, fn, at, origin) ==
    LET wrapped == callWrappers(e, fn.wraps, at, origin)
    IN  IF fn.base = "delegated" THEN delegatedHandler(wrapped, fn.binding, at, origin)
        ELSE [wrapped EXCEPT !.invoked =
                 Append(@, Invocation("handler", fn.handler, at, origin, "", 0))]

\* The listeners of one element for one phase of the dispatch, in attachment order.
RECURSIVE callListeners(_, _, _, _)
callListeners(e, entries, at, origin) ==
    IF entries = <<>> THEN e
    ELSE callListeners(callListener(e, Head(entries).fn, at, origin),
                       Tail(entries), at, origin)

\* The elements of a path, each with its listeners of the type and the phase.
RECURSIVE callPath(_, _, _, _, _)
callPath(e, path, type, useCapture, origin) ==
    IF path = <<>> THEN e
    ELSE callPath(
             callListeners(e,
                 SelectSeq(e.listeners[Head(path)],
                           LAMBDA l : l.type = type /\ l.capture = useCapture),
                 Head(path), origin),
             Tail(path), type, useCapture, origin)

\* The element and its ancestors, innermost first.
RECURSIVE PathUp(_)
PathUp(element) ==
    IF element = "" THEN <<>> ELSE <<element>> \o PathUp(EventTree[element])

Reverse(s) == [i \in 1..Len(s) |-> s[Len(s) + 1 - i]]

\* trigger(element, eventName), lines 118-126: a bubbling event; capturing
\* listeners run from the top down to the element, the others from the
\* element up.
trigger(e, element, eventName) ==
    callPath(callPath(e, Reverse(PathUp(element)), eventName, TRUE, element),
             PathUp(element), eventName, FALSE, element)

\* capture(eventName, callback), lines 131-151: the new patch keeps the
\* function it replaces.
capture(e, eventName, cb) ==
    [e EXCEPT !.capturedEvents = @ \cup {eventName},
              !.patches = Append(@, [eventName |-> eventName, callback |-> cb,
                                     original |-> e.addEventListener]),
              !.addEventListener = Len(e.patches) + 1]

\* The function capture() returned for the patch, lines 154-157.
restore(e, patch) ==
    [e EXCEPT !.addEventListener = e.patches[patch].original,
              !.capturedEvents = @ \ {e.patches[patch].eventName}]

\* events.forEach((handlers, eventName) => handlers.forEach(removeEventListener)).
RECURSIVE removeAll(_, _, _)
removeAll(e, element, names) ==
    IF names = {} THEN e
    ELSE LET eventName == CHOOSE n \in names : TRUE
         IN  removeAll(removeEach(e, element, eventName,
                                  e.elementEventMap[element][eventName]),
                       element, names \ {eventName})

\* clearElementEvents(element), lines 177-187.
clearElementEvents(e, element) ==
    IF element \in DOMAIN e.elementEventMap
    THEN [removeAll(e, element, DOMAIN e.elementEventMap[element])
             EXCEPT !.elementEventMap = Drop(@, element)]
    ELSE e

\* The registry as the operations see it.
Registry ==
    [eventRegistry |-> eventRegistry, elementEventMap |-> elementEventMap,
     delegatedEvents |-> delegatedEvents, capturedEvents |-> capturedEvents,
     listeners |-> listeners, patches |-> patches, addEventListener |-> addEventListener,
     bindings |-> bindings, nextListener |-> nextListener, invoked |-> <<>>]

\* new EventSystem(), beside elements without listeners and the native addEventListener.
InitEvent ==
    /\ eventRegistry = [n \in {} |-> <<>>]
    /\ elementEventMap = [n \in {} |-> <<>>]
    /\ delegatedEvents = [n \in {} |-> <<>>]
    /\ capturedEvents = {}
    /\ listeners = [n \in DomNodes |-> <<>>]
    /\ patches = <<>>
    /\ addEventListener = Native
    /\ bindings = <<>>
    /\ unregisters = <<>>
    /\ restored = <<>>
    /\ nextListener = 1
    /\ invoked = <<>>
    /\ failure = "none"
    /\ ecall = [kind |-> "new", element |-> "", eventName |-> "", handler |-> "",
                capture |-> FALSE, selector |-> "", index |-> 0]
    /\ necalls = 0

----------------------------------------------------------------------------
\* State after construction: new ReactiveProxy(Wrapped).

InitProxy ==
    /\ target = deepClone(Wrapped)
    /\ observers = [p \in {} |-> <<>>]
    /\ handles = {}
    /\ calls = <<>>
    /\ thrown = "none"
    /\ logged = 0
    /\ lastOp = Op("new", <<>>, Undef, Undef, <<>>, "", FALSE)
    /\ nops = 0

Init == InitProxy /\ InitUpdate /\ InitDom /\ InitEvent

\* The end of a data operation that ran as m.
Finish(m, op) ==
    /\ target' = m.target
    /\ calls' = m.calls
    /\ thrown' = m.thrown
    /\ logged' = m.logged
    /\ lastOp' = op
    /\ nops' = nops + 1
    /\ UNCHANGED <<observers, handles>>
    /\ UNCHANGED <<uvars, dvars, evars>>

\* observe(path, cb): the k-th unsubscribe function handed out for (path, cb).
\* Registrations precede the data operations: every operation is atomic and a
\* callback does not call back into the proxy, so a data operation meets every
\* registry that observe and unsubscribe calls can build.
Observe(path, cb) ==
    /\ nops = 0
    /\ observers' = observeCall(observers, path, cb)
    /\ handles' = handles \cup
          {[path |-> path, cb |-> cb, called |-> 0,
            k |-> Cardinality({h \in handles : h.path = path /\ h.cb = cb}) + 1]}
    /\ lastOp' = Op("observe", path, Undef, Undef, <<>>, cb, FALSE)
    /\ calls' = <<>> /\ thrown' = "none" /\ logged' = 0
    /\ UNCHANGED <<target, nops>>
    /\ UNCHANGED <<uvars, dvars, evars>>

\* A call of the unsubscribe function h.
Unsubscribe(h) ==
    /\ nops = 0
    /\ h \in handles
    /\ h.called < MaxUnsub
    /\ observers' = unsubscribeCall(observers, h.path, h.cb)
    /\ handles' = (handles \ {h}) \cup {[h EXCEPT !.called = @ + 1]}
    /\ lastOp' = Op("unsubscribe", h.path, Undef, Undef, <<>>, h.cb, h.called > 0)
    /\ calls' = <<>> /\ thrown' = "none" /\ logged' = 0
    /\ UNCHANGED <<target, nops>>
    /\ UNCHANGED <<uvars, dvars, evars>>

\* set(path, value)
SetPath(path, value) ==
    /\ nops < MaxOps
    /\ Finish(set(target, path, value),
              Op("set", path, value, get(target, path), <<>>, "", FALSE))

\* proxy.<loc>[prop] = value, for an object or array that exists at loc.
ProxyWrite(loc, prop, value) ==
    /\ nops < MaxOps
    /\ IsObject(Lookup(target, loc))
    /\ Finish(assign(Run(target), loc, prop, value),
              Op("write", Append(loc, prop), value, PropGet(Lookup(target, loc), prop),
                 <<>>, "", FALSE))

\* delete proxy.<loc>[prop]
ProxyDelete(loc, prop) ==
    /\ nops < MaxOps
    /\ IsObject(Lookup(target, loc))
    /\ Finish(deleteOrThrow(Run(target), loc, prop),
              Op("delete", Append(loc, prop), Undef, PropGet(Lookup(target, loc), prop),
                 <<>>, "", FALSE))

Elements(arr) == {arr.f[k] : k \in {i \in DOMAIN arr.f : IsIndex(i)}}

\* proxy.<loc>.push(...args)
Push(loc, args) ==
    /\ nops < MaxOps
    /\ IsArray(Lookup(target, loc))
    /\ Lookup(target, loc).v + Len(args) <= MaxLen
    /\ Finish(push(Run(target), loc, args),
              Op("push", loc, Undef, Lookup(target, loc), args, "", FALSE))

\* proxy.<loc>.pop()
Pop(loc) ==
    /\ nops < MaxOps
    /\ IsArray(Lookup(target, loc))
    /\ Finish(pop(Run(target), loc),
              Op("pop", loc, Undef, Lookup(target, loc), <<>>, "", FALSE))

\* proxy.<loc>.shift(), on an array of primitives
Shift(loc) ==
    /\ nops < MaxOps
    /\ IsArray(Lookup(target, loc))
    /\ \A e \in Elements(Lookup(target, loc)) : ~IsObject(e)
    /\ Finish(shift(Run(target), loc),
              Op("shift", loc, Undef, Lookup(target, loc), <<>>, "", FALSE))

\* proxy.<loc>.unshift(...args), on an array of primitives
Unshift(loc, args) ==
    /\ nops < MaxOps
    /\ IsArray(Lookup(target, loc))
    /\ Lookup(target, loc).v + Len(args) <= MaxLen
    /\ \A e \in Elements(Lookup(target, loc)) : ~IsObject(e)
    /\ Finish(unshift(Run(target), loc, args),
              Op("unshift", loc, Undef, Lookup(target, loc), args, "", FALSE))

Next ==
    \/ \E p \in ObservePaths, cb \in Callbacks :
          Cardinality(handles) < MaxObserve /\ Observe(p, cb)
    \/ \E p \in SetPaths, v \in SetValues : SetPath(p, v)
    \/ \E w \in WriteTargets, v \in WriteValues : ProxyWrite(Front(w), Last(w), v)
    \/ \E d \in DeleteTargets : ProxyDelete(Front(d), Last(d))
    \/ \E a \in ArrayLocs, args \in ArgLists : Push(a, args)
    \/ \E a \in ArrayLocs : Pop(a)
    \/ \E a \in ArrayLocs : Shift(a)
    \/ \E a \in ArrayLocs, args \in ArgLists : Unshift(a, args)

Spec == Init /\ [][Next]_allvars

\* The registry alone: observe and unsubscribe calls on two paths, then writes of `count`.
RegistryPaths == { <<"count">>, <<"items">> }

NextRegistry ==
    \/ \E p \in RegistryPaths, cb \in Callbacks :
          Cardinality(handles) < MaxHandles /\ Observe(p, cb)
    \/ \E h \in handles : Unsubscribe(h)
    \/ \E v \in SetValues : SetPath(<<"count">>, v)

SpecRegistry == Init /\ [][NextRegistry]_allvars

----------------------------------------------------------------------------
\* Operations of the Update Scheduler.

\* The end of a scheduler operation that ran as u.
Return(u, call) ==
    /\ updateHandlers' = u.updateHandlers
    /\ scheduledUpdates' = u.scheduledUpdates
    /\ rafId' = u.rafId
    /\ batchMode' = u.batchMode
    /\ batchQueue' = u.batchQueue
    /\ frames' = u.frames
    /\ handle' = u.handle
    /\ ncalls' = u.ncalls
    /\ trace' = u.trace
    /\ raised' = u.thrown
    /\ errors' = u.errors
    /\ lastCall' = call
    /\ UNCHANGED clock
    /\ UNCHANGED <<vars, dvars, evars>>

\* Every operation stays within the bounds of the model.
Bounded(u) == u.handle <= MaxFrames + 1 /\ u.ncalls <= MaxSchedule

\* registerHandler(selector, handler), before the first update is scheduled.
RegisterHandler(selector, handler) ==
    /\ ncalls = 0 /\ lastCall.kind \in {"new", "registerHandler"}
    /\ Return([Scheduler EXCEPT !.updateHandlers = registerHandler(@, selector, handler)],
              Called("registerHandler", selector, <<>>, handler))

\* scheduleUpdate(element, changes, priority)
ScheduleUpdate(element, changes, priority) ==
    LET u == scheduleUpdate(Scheduler, element, changes, priority)
    IN  Bounded(u) /\ Return(u, Called("scheduleUpdate", element, changes, priority))

\* startBatch()
StartBatch ==
    Return(startBatch(Scheduler), Called("startBatch", "", <<>>, ""))

\* endBatch()
EndBatch ==
    LET u == endBatch(Scheduler)
    IN  Bounded(u) /\ Return(u, Called("endBatch", "", <<>>, ""))

\* updateImmediate(element, changes)
UpdateImmediate(element, changes) ==
    LET u == updateImmediate(Scheduler, element, changes)
    IN  Bounded(u) /\ Return(u, Called("updateImmediate", element, changes, ""))

\* clearUpdates()
ClearUpdates ==
    Return(clearUpdates(Scheduler), Called("clearUpdates", "", <<>>, ""))

\* The browser runs an outstanding frame callback: the flush.
Flush(id) ==
    LET u == frameCallback(Scheduler, id)
    IN  /\ id \in frames
        /\ Bounded(u)
        /\ Return(u, Called("flush", "", <<>>, ""))

\* A millisecond passes.
Tick ==
    /\ clock < MaxTime
    /\ clock' = clock + 1
    /\ trace' = <<>> /\ raised' = "none" /\ errors' = 0
    /\ lastCall' = Called("tick", "", <<>>, "")
    /\ UNCHANGED <<updateHandlers, scheduledUpdates, rafId, batchMode, batchQueue, frames,
                   handle, ncalls>>
    /\ UNCHANGED <<vars, dvars, evars>>

\* The number of handlers registered.
RECURSIVE Registrations(_)
Registrations(entries) ==
    IF entries = <<>> THEN 0
    ELSE Len(Head(entries).handlers) + Registrations(Tail(entries))

\* Scheduling outside batch mode, with the default handler only: updates of
\* two nodes at the four priorities, the clock, and flushes.
UpdateInputs ==
    { <<[text |-> "a"], "normal">>, <<[text |-> "b", classes |-> "x"], "critical">>,
      <<[classes |-> "y"], "high">>, <<[text |-> "a"], "low">> }

NextUpdate ==
    \/ \E n \in Nodes, i \in UpdateInputs : ScheduleUpdate(n, i[1], i[2])
    \/ \E id \in frames : Flush(id)
    \/ Tick

SpecUpdate == Init /\ [][NextUpdate]_allvars

\* Batches, with the default handler only: updates of two nodes scheduled
\* inside and outside batches, flushes, and clearUpdates.
BatchInputs ==
    { <<[text |-> "a"], "normal">>, <<[text |-> "b", classes |-> "x"], "critical">>,
      <<[classes |-> "y"], "low">> }

NextBatch ==
    \/ \E n \in Nodes, i \in BatchInputs : ScheduleUpdate(n, i[1], i[2])
    \/ StartBatch
    \/ EndBatch
    \/ ClearUpdates
    \/ \E id \in frames : Flush(id)

SpecBatch == Init /\ [][NextBatch]_allvars

\* Applying updates: handlers that return or throw are registered, then
\* `normal` updates are scheduled, applied at once, and flushed.
ApplySelectors == {"div", ".a"}
ApplyHandlers == {"hOk", "hThrow"}
ApplyChanges == { [text |-> "a"], [classes |-> ""] }

NextApply ==
    \/ \E sel \in ApplySelectors, h \in ApplyHandlers :
          Registrations(updateHandlers) < MaxRegister /\ RegisterHandler(sel, h)
    \/ \E n \in Nodes, c \in ApplyChanges : ScheduleUpdate(n, c, "normal")
    \/ \E n \in Nodes, c \in ApplyChanges : UpdateImmediate(n, c)
    \/ \E id \in frames : Flush(id)

SpecApply == Init /\ [][NextApply]_allvars

\* Handlers that call back into the scheduler while an update is applied.
ReentrantHandlers == {"hSchedSelf", "hSchedOther", "hClear"}

NextReentrant ==
    \/ \E h \in ReentrantHandlers :
          Registrations(updateHandlers) < MaxRegister /\ RegisterHandler("div", h)
    \/ \E n \in Nodes : ScheduleUpdate(n, [text |-> "a"], "normal")
    \/ ClearUpdates
    \/ \E id \in frames : Flush(id)

SpecReentrant == Init /\ [][NextReentrant]_allvars

----------------------------------------------------------------------------
\* Vocabulary of the properties.

\* r is v, or the proxy the get trap hands out for the object v.
Same(r, v) == r = v \/ r = ProxyOf(v)

\* Invocations of cb for path by the last operation.
CallsOf(path, cb) == {i \in 1..Len(calls) : calls[i].path = path /\ calls[i].cb = cb}

\* The property names, from the root, that a path string denotes for get:
\* a bracketed segment name[i] stands for the two names name, i.
RECURSIVE Flatten(_)
Flatten(keys) ==
    IF keys = <<>> THEN <<>>
    ELSE (IF ArrayMatch(Head(keys)) # <<>> THEN ArrayMatch(Head(keys)) ELSE <<Head(keys)>>)
         \o Flatten(Tail(keys))

\* The path string `${path}[${index}]`, where the model has a name for it.
HasItemPath(path, index) ==
    \E k \in {"items[0]", "items[2]", "address[0]"} : ArrayMatch(k) = <<Last(path), index>>
ItemPath(path, index) ==
    Append(Front(path),
           CHOOSE k \in {"items[0]", "items[2]", "address[0]"} : ArrayMatch(k) = <<Last(path), index>>)

ArrayMethods == {"push", "pop", "shift", "unshift"}
UnsubscribeStep == lastOp'.kind = "unsubscribe" /\ handles' # handles

----------------------------------------------------------------------------
\* C1: get(p) evaluated right after set(p, v) returned gives v, for every path p
\* - also one whose last segment is bracketed, and one through missing intermediates.
C1_SetGetRoundTrip ==
    (lastOp.kind = "set" /\ thrown = "none")
        => Same(get(target, lastOp.path), lastOp.value)

\* C2: a write to the value at path p - by set(p, v) or by assignment through the
\* proxy - invokes every callback registered under the path string p with
\* (v, previous value).
C2_ExactPathNotified ==
    (lastOp.kind \in {"set", "write"} /\ thrown = "none")
        => \A cb \in Callbacks :
              Registered(observers, lastOp.path, cb)
                  => \E i \in CallsOf(lastOp.path, cb) :
                        /\ calls[i].value = lastOp.value
                        /\ Same(lastOp.old, calls[i].old)

\* C3: a mutating array method called through the proxy notifies the path of the
\* array exactly once with (array after, array before); push and unshift also
\* notify the item path of each inserted element with (element, undefined).
C3_ArrayMethodNotifies ==
    (lastOp.kind \in ArrayMethods /\ thrown = "none")
        => /\ \A cb \in Callbacks :
                 Registered(observers, lastOp.path, cb)
                     => /\ Cardinality(CallsOf(lastOp.path, cb)) = 1
                        /\ \A i \in CallsOf(lastOp.path, cb) :
                              /\ calls[i].value = Lookup(target, lastOp.path)
                              /\ calls[i].old = lastOp.old
           /\ \A j \in 1..Len(lastOp.args) :
                 LET index == IdxStr[(IF lastOp.kind = "push" THEN lastOp.old.v ELSE 0) + j]
                 IN  (lastOp.kind \in {"push", "unshift"} /\ HasItemPath(lastOp.path, index))
                         => \A cb \in Callbacks :
                               Registered(observers, ItemPath(lastOp.path, index), cb)
                                   => \E i \in CallsOf(ItemPath(lastOp.path, index), cb) :
                                         /\ calls[i].value = lastOp.args[j]
                                         /\ calls[i].old = Undef

\* C4: every property write through the proxy invokes each subscriber of the
\* written path exactly once, whether or not the value written equals the
\* current one.
C4_WriteNotifiesOnce ==
    (lastOp.kind = "write" /\ thrown = "none")
        => \A cb \in Callbacks :
              Registered(observers, lastOp.path, cb)
                  => Cardinality(CallsOf(lastOp.path, cb)) = 1

\* C5: a second or later call of an unsubscribe function leaves the registry as it is.
C5_RepeatedUnsubscribeNoOp ==
    [][(UnsubscribeStep /\ lastOp'.again) => observers' = observers]_vars

C7_ParentPathNotified ==
    (lastOp.kind = "write" /\ thrown = "none")
        => IF Len(lastOp.path) > 1
           THEN \A cb \in Callbacks :
                   Registered(observers, Front(lastOp.path), cb)
                       => /\ Cardinality(CallsOf(Front(lastOp.path), cb)) = 1
                          /\ \A i \in CallsOf(Front(lastOp.path), cb) :
                                /\ calls[i].value = Lookup(target, Front(lastOp.path))
                                /\ calls[i].old = calls[i].value
           ELSE \A i \in 1..Len(calls) : calls[i].path = lastOp.path

C9_ThrowingCallbackIsolated ==
    (\E i \in 1..Len(calls) : calls[i].cb \in Throwing)
        => /\ thrown # "callback"
           /\ \A i \in 1..Len(calls) : \A cb \in Callbacks :
                 Registered(observers, calls[i].path, cb)
                     => \E j \in CallsOf(calls[i].path, cb) :
                           calls[j].value = calls[i].value /\ calls[j].old = calls[i].old
           /\ lastOp.kind = "write" => Lookup(target, lastOp.path) = lastOp.value
           /\ lastOp.kind = "set"
                 => Lookup(target, Append(Flatten(Front(lastOp.path)), Last(lastOp.path)))
                       = lastOp.value
           /\ lastOp.kind = "delete"
                 => Last(lastOp.path) \notin DOMAIN Lookup(target, Front(lastOp.path)).f

\* The throwing callback was invoked before the other callback of the same
\* path, and the other one was invoked after it.
C9_Witness ==
    /\ lastOp.kind = "write"
    /\ thrown = "none"
    /\ \E i, j \in 1..Len(calls) :
          /\ i < j
          /\ calls[i].path = calls[j].path
          /\ calls[i].cb \in Throwing
          /\ calls[j].cb \notin Throwing
    /\ logged > 0

----------------------------------------------------------------------------
\* C11: set(path, v) with a path of several segments never throws when an
\* intermediate segment - plain or bracket-indexed - is missing or holds a
\* primitive: the intermediate containers are created and get(path) is then v.
C11_SetCreatesIntermediates ==
    (lastOp.kind = "set" /\ Len(lastOp.path) > 1 /\ ArrayMatch(Last(lastOp.path)) = <<>>)
        => (thrown = "none" /\ Same(get(target, lastOp.path), lastOp.value))

----------------------------------------------------------------------------
\* Vocabulary of the scheduler's properties.

\* The applyUpdate calls of the last operation, in order.
Applied(tr) == SelectSeq(tr, LAMBDA e : e.ev = "apply")

\* The pending task of a node.
Pending(map, element) == CHOOSE t \in {map[i] : i \in 1..Len(map)} : t.element = element
IsPending(map, element) == \E i \in 1..Len(map) : map[i].element = element

\* Task a is before task b in priority-then-arrival order.
Before(a, b) ==
    \/ priorityOrder[a.priority] < priorityOrder[b.priority]
    \/ priorityOrder[a.priority] = priorityOrder[b.priority] /\ a.call < b.call

FlushStep == lastCall'.kind = "flush"

----------------------------------------------------------------------------
\* C12: a flush applies the tasks scheduled outside batch mode in
\* priority-then-arrival order: of two pending tasks the one of higher priority
\* is applied first, and of two tasks of equal priority the one whose latest
\* scheduleUpdate call arrived first.
C12_PriorityThenArrival ==
    [][FlushStep =>
          \A i, j \in 1..Len(Applied(trace')) :
              i < j => Before(Pending(scheduledUpdates, Applied(trace')[i].element),
                              Pending(scheduledUpdates, Applied(trace')[j].element))]_uvars

----------------------------------------------------------------------------
\* The tasks of a node in a queue, and the shallow merge of their changeSets
\* in call order: each field has the value the last task that gives it gave it.
QueuedFor(queue, n) == {i \in 1..Len(queue) : queue[i].element = n}
Giving(queue, n, k) == {i \in QueuedFor(queue, n) : k \in DOMAIN queue[i].changes}
Latest(indices) == CHOOSE i \in indices : \A j \in indices : j <= i
MergedChanges(queue, n) ==
    [k \in UNION {DOMAIN queue[i].changes : i \in QueuedFor(queue, n)} |->
        queue[Latest(Giving(queue, n, k))].changes[k]]

\* The applyUpdate calls of the last operation for a node with a changeSet.
AppliedWith(tr, n, changes) ==
    {i \in 1..Len(Applied(tr)) : Applied(tr)[i].element = n /\ Applied(tr)[i].changes = changes}

\* C13: endBatch leaves exactly one pending task for every node scheduled in
\* the batch, whose changeSet is the shallow merge of the node's batched
\* changeSets in call order (a later call overwrites a field, fields of earlier
\* calls are kept); a flush that finds such a task applies it once.
C13_BatchMerged ==
    [][/\ (lastCall'.kind = "endBatch") =>
            (\A n \in Nodes : QueuedFor(batchQueue, n) # {} =>
                (/\ Cardinality(QueuedFor(scheduledUpdates', n)) = 1
                 /\ Pending(scheduledUpdates', n).changes = MergedChanges(batchQueue, n)))
       /\ FlushStep =>
            (\A i \in 1..Len(scheduledUpdates) : scheduledUpdates[i].call = 0 =>
                (/\ Cardinality(AppliedWith(trace', scheduledUpdates[i].element,
                                            scheduledUpdates[i].changes)) = 1
                 /\ Cardinality(QueuedFor(Applied(trace'), scheduledUpdates[i].element)) = 1
                 /\ ~IsPending(scheduledUpdates', scheduledUpdates[i].element)))]_allvars

\* A flush applied the merge of {text: "a"} and {classes: "y"}, batched for n1.
C13_Witness ==
    /\ lastCall.kind = "flush"
    /\ AppliedWith(trace, "n1", [text |-> "a", classes |-> "y"]) # {}

----------------------------------------------------------------------------
\* C14: outside batch mode the pending map holds at most one task per node;
\* after a scheduleUpdate call the task of its node has exactly the changeSet
\* and the priority of that call (fields of earlier calls are dropped), the
\* tasks of the other nodes are as they were, and a flush is requested.
C14_LastCallReplaces ==
    /\ [](\A n \in Nodes : Cardinality(QueuedFor(scheduledUpdates, n)) <= 1)
    /\ [][(lastCall'.kind = "scheduleUpdate" /\ ~batchMode) =>
            (/\ Pending(scheduledUpdates', lastCall'.element).changes = lastCall'.changes
             /\ Pending(scheduledUpdates', lastCall'.element).priority = lastCall'.priority
             /\ \A n \in Nodes \ {lastCall'.element} :
                    /\ IsPending(scheduledUpdates', n) <=> IsPending(scheduledUpdates, n)
                    /\ IsPending(scheduledUpdates, n) =>
                           Pending(scheduledUpdates', n) = Pending(scheduledUpdates, n)
             /\ rafId' # NoRaf
             /\ rafId' \in frames')]_allvars

\* Two scheduleUpdate calls were made outside batch mode, the second one with
\* {classes: "y"} for n1, and n1's task is the only pending one.
C14_Witness ==
    /\ lastCall.kind = "scheduleUpdate" /\ lastCall.element = "n1"
    /\ lastCall.changes = [classes |-> "y"]
    /\ ~batchMode /\ ncalls = 2 /\ handle = 3
    /\ Len(scheduledUpdates) = 1
    /\ scheduledUpdates[1].call = 2

----------------------------------------------------------------------------
\* C15: at any time at most one frame callback is outstanding for the
\* scheduler - also after scheduleUpdate calls made by a handler while a flush
\* is running.
C15_OneFlushOutstanding == Cardinality(frames) <= 1

----------------------------------------------------------------------------
\* C16: after clearUpdates() returns - in whatever state it was called, also
\* from a handler during a flush - no frame callback is outstanding, nothing
\* is pending or queued, and no update that was pending before the call is
\* applied: in a flush no applyUpdate follows a clearUpdates call.
C16_ClearCancelsEverything ==
    /\ lastCall.kind = "clearUpdates" =>
          (frames = {} /\ scheduledUpdates = <<>> /\ batchQueue = <<>>)
    /\ lastCall.kind = "flush" =>
          \A i, j \in 1..Len(trace) :
              (i < j /\ trace[i].handler = "hClear") => trace[j].ev # "apply"

----------------------------------------------------------------------------
\* The handlers registered under a selector.
HandlersOf(selector) ==
    (CHOOSE e \in {updateHandlers[i] : i \in 1..Len(updateHandlers)} :
        e.selector = selector).handlers

\* The invocations of the handlers of a selector for a node by the last operation.
Invoked(selector, element) ==
    {i \in 1..Len(trace) : trace[i].ev = "handler" /\ trace[i].selector = selector
                           /\ trace[i].element = element}

\* C17: when a handler throws while an update is applied - a registered
\* handler or the default handler - the other handlers registered under its
\* selector still run, no exception leaves the operation, and the flush goes
\* on: it applies every pending task and leaves none pending.
C17_ThrowingHandlerIsolated ==
    lastCall.kind = "flush" =>
        /\ raised = "none"
        /\ scheduledUpdates = <<>>
        /\ \A i \in 1..Len(trace) : trace[i].ev = "handler" =>
              Cardinality(Invoked(trace[i].selector, trace[i].element))
                  = Len(HandlersOf(trace[i].selector))

----------------------------------------------------------------------------
\* C18: when a flush completes, every task that was pending when it started
\* has been applied exactly once in it, with its changeSet, nothing else has
\* been applied, and the task is no longer in the pending map.
C18_FlushAppliesAllOnce ==
    [][(FlushStep /\ raised' = "none") =>
          /\ Len(Applied(trace')) = Len(scheduledUpdates)
          /\ \A i \in 1..Len(scheduledUpdates) :
                /\ Cardinality(AppliedWith(trace', scheduledUpdates[i].element,
                                           scheduledUpdates[i].changes)) = 1
                /\ \A j \in 1..Len(scheduledUpdates') :
                      scheduledUpdates'[j] # scheduledUpdates[i]]_allvars

\* A flush applied two pending tasks and left none pending.
C18_Witness ==
    /\ lastCall.kind = "flush" /\ raised = "none"
    /\ Len(Applied(trace)) = 2
    /\ Applied(trace)[1].element # Applied(trace)[2].element
    /\ scheduledUpdates = <<>>

----------------------------------------------------------------------------
\* C19: applying an update to a node invokes, with (node, changeSet), every
\* handler registered under every selector that matches the node - also those
\* under a second selector that matches it.
C19_AllMatchingHandlersInvoked ==
    lastCall.kind = "updateImmediate" =>
        \A i \in 1..Len(updateHandlers) :
            matches(lastCall.element, updateHandlers[i].selector) =>
                /\ Cardinality(Invoked(updateHandlers[i].selector, lastCall.element))
                      = Len(updateHandlers[i].handlers)
                /\ \A j \in Invoked(updateHandlers[i].selector, lastCall.element) :
                      trace[j].changes = lastCall.changes

----------------------------------------------------------------------------
\* C20: the default handler runs for an update if and only if no registered
\* handler's selector matches the node - it does not run when a matching
\* handler exists, whether that handler returns or throws.
C20_DefaultOnlyWithoutMatch ==
    lastCall.kind = "updateImmediate" =>
        ((\E i \in 1..Len(trace) : trace[i].ev = "default")
            <=> ~\E i \in 1..Len(updateHandlers) :
                    matches(lastCall.element, updateHandlers[i].selector))

----------------------------------------------------------------------------
\* The entries of the trace that belong to the i-th applyUpdate call: from its
\* "apply" entry up to the entry before the next one.
ApplyStarts == {i \in 1..Len(trace) : trace[i].ev = "apply"}
ApplyEnd(i) ==
    IF \E j \in ApplyStarts : j > i
    THEN (CHOOSE j \in ApplyStarts : j > i /\ \A k \in ApplyStarts : k > i => j <= k) - 1
    ELSE Len(trace)

\* C21: every application of an update to a node, by a flush or by
\* updateImmediate, dispatches exactly one updated event from the node, after
\* the handlers - registered handlers, the default handler, handlers that threw.
C21_OneUpdatedEventPerApply ==
    lastCall.kind \in {"flush", "updateImmediate"} =>
        \A i \in ApplyStarts :
            /\ trace[ApplyEnd(i)].ev = "updated"
            /\ trace[ApplyEnd(i)].element = trace[i].element
            /\ \A j \in i..(ApplyEnd(i) - 1) : trace[j].ev # "updated"


----------------------------------------------------------------------------
\* updateImmediate beside the scheduler: updates are scheduled inside and
\* outside a batch, flushed, and applied at once with change sets of one
\* to four fields; "div" may get one handler that returns.
ImmediateChanges ==
    { [text |-> "a"],
      [dataset |-> "d", classes |-> "x", html |-> "h", text |-> "b"],
      [styles |-> "s", attributes |-> "k"] }

NextImmediate ==
    \/ Registrations(updateHandlers) < 1 /\ RegisterHandler("div", "hOk")
    \/ \E n \in Nodes : ScheduleUpdate(n, [text |-> "a"], "normal")
    \/ StartBatch
    \/ EndBatch
    \/ \E n \in Nodes, c \in ImmediateChanges : UpdateImmediate(n, c)
    \/ \E id \in frames : Flush(id)

SpecImmediate == Init /\ [][NextImmediate]_allvars

\* C22: updateImmediate applies the change before it returns and leaves the
\* pending map, the batch queue, the batch-mode flag and the outstanding flush
\* request as they were, also inside a batch and while a task for the same
\* node is pending.
C22_ImmediateLeavesSchedulerAlone ==
    [][lastCall'.kind = "updateImmediate" =>
          /\ UNCHANGED <<scheduledUpdates, batchQueue, batchMode, rafId, frames>>
          /\ AppliedWith(trace', lastCall'.element, lastCall'.changes) = {1}
          /\ Len(Applied(trace')) = 1
          /\ trace'[Len(trace')].ev = "updated"
          /\ raised' = "none"]_allvars

\* An immediate update of n1 returned inside a batch that holds an update, while
\* a task for n1 was pending with its flush outstanding.
C22_Witness ==
    /\ lastCall.kind = "updateImmediate" /\ lastCall.element = "n1"
    /\ batchMode /\ batchQueue # <<>>
    /\ IsPending(scheduledUpdates, "n1") /\ rafId # NoRaf


----------------------------------------------------------------------------
\* The scheduleUpdate calls whose tasks are in a sequence of tasks.
TaskCalls(tasks) == {tasks[i].call : i \in 1..Len(tasks)}

\* C23: while batch mode is active, scheduleUpdate leaves the pending map
\* unchanged and requests no flush - the task only joins the batch queue - and
\* a flush that fires between startBatch and endBatch applies none of the
\* updates scheduled inside the batch: it applies the tasks that were pending
\* and leaves the batch queue as it was.
C23_BatchedUpdatesWait ==
    /\ [](batchMode => TaskCalls(batchQueue) \cap TaskCalls(scheduledUpdates) = {})
    /\ [][batchMode /\ lastCall'.kind = "scheduleUpdate" =>
             /\ UNCHANGED <<scheduledUpdates, rafId, frames, handle, batchMode>>
             /\ Len(batchQueue') = Len(batchQueue) + 1
             /\ SubSeq(batchQueue', 1, Len(batchQueue)) = batchQueue
             /\ batchQueue'[Len(batchQueue')].element = lastCall'.element
             /\ batchQueue'[Len(batchQueue')].changes = lastCall'.changes]_allvars
    /\ [][batchMode /\ FlushStep =>
             /\ UNCHANGED <<batchQueue, batchMode>>
             /\ Len(Applied(trace')) = Len(scheduledUpdates)
             /\ \A i \in 1..Len(Applied(trace')) :
                   /\ IsPending(scheduledUpdates, Applied(trace')[i].element)
                   /\ Pending(scheduledUpdates, Applied(trace')[i].element).changes
                         = Applied(trace')[i].changes]_allvars

\* A flush ran inside a batch that holds an update of n1, applied the task of n1
\* that was pending before the batch with other changes, and left the batch as it was.
C23_Witness ==
    /\ lastCall.kind = "flush" /\ batchMode
    /\ \E i \in 1..Len(batchQueue) :
          /\ batchQueue[i].element = "n1"
          /\ AppliedWith(trace, "n1", batchQueue[i].changes) = {}
    /\ \E c \in {[text |-> "a"], [classes |-> "y"]} : AppliedWith(trace, "n1", c) # {}


----------------------------------------------------------------------------
\* The place of each field in the order text, html, attributes, styles,
\* classes, dataset.
FieldRank ==
    [text |-> 1, html |-> 2, attributes |-> 3, styles |-> 4, classes |-> 5, dataset |-> 6]

\* The writes to the node made by the default handler entered at entry i of the
\* trace: the field entries up to the next applyUpdate.
WritesOf(i) ==
    {j \in (i + 1)..Len(trace) :
        /\ trace[j].ev \in DOMAIN FieldRank
        /\ \A k \in i..j : trace[k].ev # "apply"}

\* C24: the default handler applies the fields of a changeSet in the fixed
\* order text, html, attributes, styles, classes, dataset, whatever the order
\* in which they were given; every field given is written with its value, and a
\* field that is absent leaves its part of the node unwritten.
C24_DefaultHandlerFieldOrder ==
    \A i \in 1..Len(trace) :
        trace[i].ev = "default" =>
            /\ \A j, k \in WritesOf(i) :
                  j < k => FieldRank[trace[j].ev] < FieldRank[trace[k].ev]
            /\ {trace[j].ev : j \in WritesOf(i)} = DOMAIN trace[i].changes
            /\ \A j \in WritesOf(i) :
                  /\ trace[j].element = trace[i].element
                  /\ trace[j].changes =
                        [f \in {trace[j].ev} |-> trace[i].changes[f]]

\* The default handler applied a changeSet of four fields.
C24_Witness ==
    /\ lastCall.kind = "updateImmediate"
    /\ DOMAIN lastCall.changes = {"dataset", "classes", "html", "text"}
    /\ \E i \in 1..Len(trace) : trace[i].ev = "default" /\ Cardinality(WritesOf(i)) = 4


----------------------------------------------------------------------------
\* Operations of the Document Observation Layer, and the document writes and
\* microtasks it reacts to.

\* The last operation: its kind, the element it is about and, for an
\* insertion, the new parent.
DomCall(kind, element, parent) == [kind |-> kind, element |-> element, parent |-> parent]

\* The end of an operation that ran as d and left the document as tree.
ReturnDom(d, tree, call) ==
    /\ parentOf' = tree
    /\ reactiveElements' = d.reactiveElements
    /\ elementObservers' = d.elementObservers
    /\ mos' = d.mos
    /\ nextMo' = d.nextMo
    /\ notifyList' = d.notifyList
    /\ updateQueue' = d.updateQueue
    /\ isUpdating' = d.isUpdating
    /\ drains' = d.drains
    /\ released' = d.released
    /\ dtrace' = d.dtrace
    /\ dcall' = call
    /\ UNCHANGED <<vars, uvars, evars>>

\* makeReactive(element), called by the application.
MakeReactive(element) ==
    /\ nmake < MaxMake
    /\ nmake' = nmake + 1
    /\ ReturnDom(makeReactive(Layer, element), parentOf, DomCall("makeReactive", element, ""))
    /\ UNCHANGED <<roots, inserted, nwrites>>

\* makeReactiveSubtree(root), called by the application.
MakeReactiveSubtree(root) ==
    /\ nmake < MaxMake
    /\ nmake' = nmake + 1
    /\ roots' = roots \cup {root}
    /\ ReturnDom(makeReactiveSubtree(Layer, parentOf, root), parentOf,
                 DomCall("makeReactiveSubtree", root, ""))
    /\ UNCHANGED <<inserted, nwrites>>

\* destroy()
Destroy ==
    /\ nmake < MaxMake
    /\ nmake' = nmake + 1
    /\ roots' = {} /\ inserted' = {}
    /\ ReturnDom(destroy(Layer), parentOf, DomCall("destroy", "", ""))
    /\ UNCHANGED nwrites

\* A document write: element.setAttribute(...).
SetAttribute(element) ==
    /\ nwrites < MaxWrites
    /\ nwrites' = nwrites + 1
    /\ ReturnDom(queueRecord(Layer, parentOf, "attributes", element, "", ""), parentOf,
                 DomCall("setAttribute", element, ""))
    /\ UNCHANGED <<roots, inserted, nmake>>

\* A document write: the data of the text node below the element is set.
SetText(element) ==
    /\ nwrites < MaxWrites
    /\ nwrites' = nwrites + 1
    /\ ReturnDom(queueRecord(Layer, parentOf, "characterData", element, "", ""), parentOf,
                 DomCall("setText", element, ""))
    /\ UNCHANGED <<roots, inserted, nmake>>

\* The elements that came under a root after makeReactiveSubtree was called
\* for it, once the child and what is below it have moved to their place in tree.
Moved(pairs, tree, child) ==
    LET sub == {n \in DomNodes : n = child \/ child \in Ancestors(tree, n)}
    IN  {q \in pairs : q[2] \notin sub}
        \cup {q \in roots \X sub : q[1] \in Ancestors(tree, child)}

\* A document write: parent.appendChild(child), which first removes the child
\* from the parent it has.
AppendChild(parent, child) ==
    LET old == parentOf[child]
        detached == [parentOf EXCEPT ![child] = ""]
        d1 == IF old = "" THEN Layer
              ELSE queueRecord(Layer, detached, "childList", old, "", child)
    IN  /\ nwrites < MaxWrites
        /\ child \in Movable /\ parent # child
        /\ child \notin Ancestors(parentOf, parent)
        /\ nwrites' = nwrites + 1
        /\ ReturnDom(queueRecord(d1, detached, "childList", parent, child, ""),
                     [parentOf EXCEPT ![child] = parent],
                     DomCall("appendChild", child, parent))
        /\ inserted' = Moved(inserted, [parentOf EXCEPT ![child] = parent], child)
        /\ UNCHANGED <<roots, nmake>>

\* A document write: child.remove().
RemoveChild(child) ==
    LET detached == [parentOf EXCEPT ![child] = ""]
    IN  /\ nwrites < MaxWrites
        /\ parentOf[child] # ""
        /\ nwrites' = nwrites + 1
        /\ ReturnDom(queueRecord(Layer, detached, "childList", parentOf[child], "", child),
                     detached, DomCall("removeChild", child, ""))
        /\ inserted' = Moved(inserted, detached, child)
        /\ UNCHANGED <<roots, nmake>>

\* The MutationObservers that have records, in creation order.
WithRecords(observerSeq) ==
    LET having == SelectSeq(observerSeq, LAMBDA o : o.records # <<>>)
    IN  [i \in 1..Len(having) |-> having[i].id]

\* The microtask of the browser that delivers the queued records, to the
\* observers in the order of their creation or of their first record.
Deliver(byCreation) ==
    /\ notifyList # <<>>
    /\ ReturnDom([notifyObservers(Layer, parentOf,
                                  IF byCreation THEN WithRecords(mos) ELSE notifyList)
                      EXCEPT !.notifyList = <<>>],
                 parentOf, DomCall("deliver", "", ""))
    /\ UNCHANGED <<roots, inserted, nwrites, nmake>>

\* The microtask queued by queueUpdate: processUpdateQueue().
Drain ==
    /\ drains > 0
    /\ ReturnDom([processUpdateQueue(Layer) EXCEPT !.drains = @ - 1], parentOf,
                 DomCall("drain", "", ""))
    /\ UNCHANGED <<roots, inserted, nwrites, nmake>>

\* Subtrees made reactive while elements are inserted, moved and removed.
NextTree ==
    \/ \E n \in DomNodes : MakeReactive(n)
    \/ \E n \in DomNodes : MakeReactiveSubtree(n)
    \/ \E p \in DomNodes, c \in Movable : AppendChild(p, c)
    \/ \E c \in Movable : RemoveChild(c)
    \/ \E byCreation \in BOOLEAN : Deliver(byCreation)
    \/ Drain

SpecTree == Init /\ [][NextTree]_allvars


----------------------------------------------------------------------------
\* The handles the layer tracks for an element and a concern.
HandlesFor(element, concern) ==
    {i \in 1..Len(mos) :
        /\ mos[i].element = element /\ mos[i].concern = concern
        /\ \E j \in 1..Len(elementObservers[element]) :
              elementObservers[element][j] = mos[i].id}

\* C28: at every moment each element tracked by the layer owns at most one
\* observation handle per concern - attribute watch, content watch, child watch
\* and the future-node watch of subtree roots - after any sequence of
\* makeReactive, makeReactiveSubtree (also repeated on the same root),
\* insertions at any depth and removals.
C28_OneHandlePerConcern ==
    \A n \in DomNodes, c \in {"attributes", "content", "children", "newElements"} :
        Cardinality(HandlesFor(n, c)) <= 1

\* No record is waiting for an observation callback.
Delivered == \A i \in 1..Len(mos) : mos[i].records = <<>>

\* C30: for a root made reactive with makeReactiveSubtree, every element
\* inserted later anywhere under the root, with all its descendants, is
\* reactive once the pending observation callbacks have run.
C30_InsertedElementsReactive ==
    Delivered =>
        \A q \in inserted :
            (q[1] \in reactiveElements /\ HandlesFor(q[1], "newElements") # {})
                => q[2] \in reactiveElements


----------------------------------------------------------------------------
\* Watching a document that has content: r holds a, which holds x.  The
\* application makes a and the subtree of r reactive, writes attributes and
\* text, removes a and puts it back, and may destroy the layer.
Family == [n \in DomNodes |-> IF n = "a" THEN "r" ELSE IF n = "x" THEN "a" ELSE ""]

NextObserve ==
    \/ MakeReactive("a")
    \/ MakeReactiveSubtree("r")
    \/ Destroy
    \/ SetAttribute("a")
    \/ SetText("x")
    \/ RemoveChild("a")
    \/ AppendChild("r", "a")
    \/ \E byCreation \in BOOLEAN : Deliver(byCreation)
    \/ Drain

InitObserve == InitProxy /\ InitUpdate /\ InitLayer(Family) /\ InitEvent

SpecObserve == InitObserve /\ [][NextObserve]_allvars


----------------------------------------------------------------------------
\* The semantic events of the layer.
SemanticEvents ==
    {"attribute-change", "content-change", "child-added", "child-removed", "update"}

\* C25: after cleanupElement(n) has run, no attribute-change, content-change,
\* child-added, child-removed or update event is dispatched on n for later
\* mutations of n until n is made reactive again: no handle of n is connected
\* or holds a record, n is not in the intent queue, and no event of the last
\* operation was dispatched on an element in that condition.
C25_NoEventsAfterCleanup ==
    /\ \A i \in 1..Len(dtrace) :
          dtrace[i].ev \in SemanticEvents => ~dtrace[i].released
    /\ \A n \in released :
          /\ \A i \in 1..Len(mos) : mos[i].element # n
          /\ \A i \in 1..Len(updateQueue) : updateQueue[i] # n

\* cleanupElement ran for a; later an attribute of a was written, and no
\* observation callback is due.
C25_Witness ==
    /\ "a" \in released
    /\ dcall.kind = "setAttribute" /\ dcall.element = "a"
    /\ notifyList = <<>>


----------------------------------------------------------------------------
\* C27: the intent queue is coalesced per microtask turn: however many
\* mutations are observed before a drain, each affected element is in the
\* queue at most once, at most one drain microtask is outstanding, an element
\* is never in the queue without a drain outstanding, and the drain dispatches
\* exactly one update event to each element of the queue and leaves it empty.
C27_QueueCoalesced ==
    /\ [](/\ drains <= 1
          /\ \A i, j \in 1..Len(updateQueue) : updateQueue[i] = updateQueue[j] => i = j
          /\ updateQueue # <<>> => drains = 1 /\ isUpdating)
    /\ [][dcall'.kind = "drain" =>
             /\ dtrace' = [i \in 1..Len(updateQueue) |->
                              DomEv("update", updateQueue[i], FALSE, 0, <<>>, {})]
             /\ updateQueue' = <<>>
             /\ drains' = 0 /\ ~isUpdating']_allvars

\* Several mutations of a were observed in one delivery, which left a in the
\* queue once, with other elements.
C27_Witness ==
    /\ dcall.kind = "deliver"
    /\ Cardinality({i \in 1..Len(dtrace) :
                       dtrace[i].ev \in SemanticEvents /\ dtrace[i].target = "a"}) >= 2
    /\ Len(updateQueue) >= 2


----------------------------------------------------------------------------
\* The disconnect() calls of an operation for the MutationObserver id.
Disconnects(tr, id) == {i \in 1..Len(tr) : tr[i].ev = "disconnect" /\ tr[i].id = id}

\* C29: cleanupElement(n) disconnects every handle tracked for n exactly once
\* and removes n from the handle map, from the set of reactive elements and
\* from the intent queue; afterwards n is unknown to the layer, and a later
\* makeReactive(n) attaches fresh handles.
C29_CleanupReleasesElement ==
    /\ [](\A i \in 1..Len(dtrace) :
             dtrace[i].ev = "cleaned" =>
                /\ dtrace[i].left = {}
                /\ \A k \in 1..Len(dtrace[i].handles) :
                      /\ Cardinality(Disconnects(dtrace, dtrace[i].handles[k])) = 1
                      /\ Disconnects(dtrace, dtrace[i].handles[k])
                            = {i - Len(dtrace[i].handles) + k - 1})
    /\ [](\A n \in released :
             /\ elementObservers[n] = <<>> /\ n \notin reactiveElements
             /\ \A i \in 1..Len(updateQueue) : updateQueue[i] # n
             /\ \A i \in 1..Len(mos) : mos[i].element # n)
    /\ [][(dcall'.kind = "makeReactive" /\ dcall'.element \in released) =>
             /\ dcall'.element \in reactiveElements' \ released'
             /\ elementObservers'[dcall'.element] = <<nextMo, nextMo + 1, nextMo + 2>>
             /\ \A c \in {"attributes", "content", "children"} :
                   \E i \in 1..Len(mos') :
                      /\ mos'[i].element = dcall'.element /\ mos'[i].concern = c
                      /\ mos'[i].id >= nextMo /\ mos'[i].records = <<>>]_allvars

\* makeReactive(a) returned after cleanupElement had run for a: a now has
\* handles that were created after all those of x.
C29_Witness ==
    /\ dcall.kind = "makeReactive" /\ dcall.element = "a"
    /\ "a" \in reactiveElements /\ "x" \in reactiveElements
    /\ \A i \in 1..Len(elementObservers["a"]), j \in 1..Len(elementObservers["x"]) :
          elementObservers["a"][i] > elementObservers["x"][j]


----------------------------------------------------------------------------
\* The browser runs every microtask that is queued: the drain of the intent
\* queue and the delivery of the records.  A delivery is enabled exactly
\* while notifyList is not empty and leaves it empty, so weak fairness of the
\* delivery is that notifyList is empty again and again.
SpecObserveFair ==
    /\ SpecObserve
    /\ WF_allvars(Drain)
    /\ []<>(notifyList = <<>>)

\* Nothing is left for the layer to do.
Quiescent ==
    /\ notifyList = <<>> /\ \A i \in 1..Len(mos) : mos[i].records = <<>>
    /\ drains = 0 /\ ~isUpdating
    /\ updateQueue = <<>>

\* C26: after a finite number of document writes the system reaches a
\* quiescent state: the steps of the layer - the observation callbacks and the
\* drain - only enqueue elements and dispatch events, they leave the document
\* and the scheduler as they are and queue no record, so the intent queue
\* becomes empty and stays so, with no drain and no callback outstanding.
C26_Quiescence ==
    /\ [][dcall'.kind \in {"deliver", "drain"} =>
             /\ UNCHANGED <<parentOf, uvars, nwrites>>
             /\ \A i \in 1..Len(mos') : mos'[i].records # <<>> =>
                   \E j \in 1..Len(mos) : mos[j] = mos'[i]]_allvars
    /\ <>[]Quiescent

\* The layer is quiescent after a drain that dispatched update events for
\* several elements, with all the writes of the behaviour made.
C26_Witness ==
    /\ Quiescent
    /\ dcall.kind = "drain" /\ Len(dtrace) >= 2
    /\ nwrites = MaxWrites


----------------------------------------------------------------------------
\* Operations of the Event Registry.

\* The last operation of the registry: index is the function of on(),
\* delegate() or capture() that was called, 0 for a method of the registry.
EventCall(kind, element, eventName, handler, useCapture, selector, index) ==
    [kind |-> kind, element |-> element, eventName |-> eventName, handler |-> handler,
     capture |-> useCapture, selector |-> selector, index |-> index]

\* The end of an operation that ran as e.
ReturnEvent(e, call) ==
    /\ eventRegistry' = e.eventRegistry
    /\ elementEventMap' = e.elementEventMap
    /\ delegatedEvents' = e.delegatedEvents
    /\ capturedEvents' = e.capturedEvents
    /\ listeners' = e.listeners
    /\ patches' = e.patches
    /\ addEventListener' = e.addEventListener
    /\ bindings' = e.bindings
    /\ nextListener' = e.nextListener
    /\ invoked' = e.invoked
    /\ failure' = "none"
    /\ ecall' = call
    /\ UNCHANGED <<vars, uvars, dvars>>

\* One more operation on listeners: a call of on, off, delegate, trigger,
\* clearElementEvents or of a function on or delegate returned.
Counted ==
    /\ necalls < MaxEvents
    /\ necalls' = necalls + 1

\* on(element, eventName, handler, {capture: useCapture}); the function it
\* returns is kept.
On(element, eventName, handler, useCapture) ==
    /\ Counted
    /\ ReturnEvent(on(Registry, element, eventName, handler, useCapture),
                   EventCall("on", element, eventName, handler, useCapture, "", 0))
    /\ unregisters' = Append(unregisters, [element |-> element, eventName |-> eventName,
                                            handler |-> handler, called |-> 0])
    /\ UNCHANGED restored

\* off(element, eventName, handler), and off(element, eventName) when handler is "".
Off(element, eventName, handler) ==
    /\ Counted
    /\ ReturnEvent(off(Registry, element, eventName, handler),
                   EventCall("off", element, eventName, handler, FALSE, "", 0))
    /\ UNCHANGED <<unregisters, restored>>

\* A call of the i-th function on() returned (lines 37-39).
Unregister(i) ==
    /\ i \in 1..Len(unregisters)
    /\ unregisters[i].called < MaxUnsub
    /\ Counted
    /\ LET r == unregisters[i]
       IN  ReturnEvent(off(Registry, r.element, r.eventName, r.handler),
                       EventCall("unregister", r.element, r.eventName, r.handler, FALSE, "", i))
    /\ unregisters' = [unregisters EXCEPT ![i].called = @ + 1]
    /\ UNCHANGED restored

\* clearElementEvents(element).
ClearElementEvents(element) ==
    /\ Counted
    /\ ReturnEvent(clearElementEvents(Registry, element),
                   EventCall("clearElementEvents", element, "", "", FALSE, "", 0))
    /\ UNCHANGED <<unregisters, restored>>

\* delegate(parent, selector, eventName, handler).
Delegate(parent, selector, eventName, handler) ==
    /\ Counted
    /\ ReturnEvent(delegate(Registry, parent, selector, eventName, handler),
                   EventCall("delegate", parent, eventName, handler, FALSE, selector,
                             Len(bindings) + 1))
    /\ UNCHANGED <<unregisters, restored>>

\* A call of the function delegate() returned for the i-th binding.
Undelegate(i) ==
    /\ i \in 1..Len(bindings)
    /\ Counted
    /\ ReturnEvent(undelegate(Registry, i),
                   EventCall("undelegate", bindings[i].parent, bindings[i].eventName,
                             bindings[i].handler, FALSE, bindings[i].selector, i))
    /\ UNCHANGED <<unregisters, restored>>

\* trigger(element, eventName).
Trigger(element, eventName) ==
    /\ Counted
    /\ ReturnEvent(trigger(Registry, element, eventName),
                   EventCall("trigger", element, eventName, "", FALSE, "", 0))
    /\ UNCHANGED <<unregisters, restored>>

\* capture(eventName, callback); the function it returns is kept.
Capture(eventName, cb) ==
    /\ Len(patches) < MaxCaptures
    /\ ReturnEvent(capture(Registry, eventName, cb),
                   EventCall("capture", "", eventName, cb, FALSE, "", Len(patches) + 1))
    /\ restored' = Append(restored, 0)
    /\ UNCHANGED <<unregisters, necalls>>

\* A call of the function capture() returned for the i-th patch.
Restore(i) ==
    /\ i \in 1..Len(patches)
    /\ restored[i] < MaxUnsub
    /\ ReturnEvent(restore(Registry, i),
                   EventCall("restore", "", patches[i].eventName, patches[i].callback,
                             FALSE, "", i))
    /\ restored' = [restored EXCEPT ![i] = @ + 1]
    /\ UNCHANGED <<unregisters, necalls>>

EventNames == {"click", "key"}
EventHandlers == {"h1", "h2"}
Listened == {"a", "x"}

\* on, off, the functions on returned, clearElementEvents and trigger.
NextEvents ==
    \/ \E n \in Listened, t \in EventNames, h \in EventHandlers, c \in BOOLEAN : On(n, t, h, c)
    \/ \E n \in Listened, t \in EventNames, h \in EventHandlers \cup {""} : Off(n, t, h)
    \/ \E i \in 1..Len(unregisters) : Unregister(i)
    \/ \E n \in Listened : ClearElementEvents(n)
    \/ \E n \in Listened, t \in EventNames : Trigger(n, t)

SpecEvents == Init /\ [][NextEvents]_allvars

CaptureCallbacks == {"cb1", "cb2"}

\* capture and its restore functions, beside listeners attached through on.
NextCapture ==
    \/ \E t \in EventNames, cb \in CaptureCallbacks : Capture(t, cb)
    \/ \E i \in 1..Len(patches) : Restore(i)
    \/ \E c \in BOOLEAN : On("a", "click", "h1", c)
    \/ Trigger("x", "click")

SpecCapture == Init /\ [][NextCapture]_allvars

\* delegate, the functions it returned and trigger.
NextDelegate ==
    \/ \E p \in {"r", "a"}, s \in Selectors : Delegate(p, s, "click", "h1")
    \/ \E i \in 1..Len(bindings) : Undelegate(i)
    \/ \E n \in DomNodes, t \in EventNames : Trigger(n, t)

SpecDelegate == Init /\ [][NextDelegate]_allvars


----------------------------------------------------------------------------
\* Properties of the Event Registry.

\* capture() was called and the restore function of every patch was called.
AllRestored == patches # <<>> /\ \A i \in 1..Len(patches) : restored[i] > 0

\* The listeners the step attached to the element.
Attached(element) ==
    {listeners'[element][i] : i \in (Len(listeners[element]) + 1)..Len(listeners'[element])}

\* C31: once the restore function of every capture has been called, in
\* whatever order, EventTarget.prototype.addEventListener is the native
\* function again, and a listener that on() attaches from then on is the
\* handler itself: no patch wraps it, so no capture callback runs for it.
C31_RestoreReturnsOriginal ==
    /\ [](AllRestored => addEventListener = Native)
    /\ [][AllRestored /\ ecall'.kind = "on" =>
             \A l \in Attached(ecall'.element) : l.fn.wraps = <<>>]_allvars


\* C32: a call of a function on() returned that is not its first call changes
\* nothing: the global registry, the per-node registries and the listeners of
\* the elements are as before - whatever was registered on other elements or
\* registered again in between.
C32_RepeatedUnregisterNoOp ==
    [][ecall'.kind = "unregister" /\ unregisters[ecall'.index].called >= 1 =>
          UNCHANGED <<eventRegistry, elementEventMap, listeners>>]_allvars


\* The handlers the per-node registry lists for the event name on the element.
Listed(map, element, eventName) ==
    IF element \in DOMAIN map THEN SeqRange(GetList(map[element], eventName)) ELSE {}

\* The handlers of on() the last trigger invoked at the element.
Fired(element) ==
    {invoked[i].name : i \in {j \in 1..Len(invoked) :
                                 invoked[j].kind = "handler" /\ invoked[j].at = element}}

\* The handlers the last call of off (or of a function on() returned) was to
\* remove from the element it names, given the per-node registry before it.
Removed(map) ==
    IF ecall'.handler = "" THEN Listed(map, ecall'.element, ecall'.eventName)
    ELSE {ecall'.handler}

\* C33: off(node, eventName, handler) takes that handler's registration for
\* the event name off the node, off(node, eventName) every handler's; the
\* per-node registry lists none of them afterwards, the lists of other nodes
\* and of other event names are as before, and when the event name fires on
\* the node next, no handler runs that the per-node registry does not list -
\* whatever the capture option it was registered with.
C33_OffRemoves ==
    /\ [][ecall'.kind = "off" =>
             /\ Removed(elementEventMap)
                   \cap Listed(elementEventMap', ecall'.element, ecall'.eventName) = {}
             /\ \A n \in DomNodes, t \in EventNames :
                   <<n, t>> # <<ecall'.element, ecall'.eventName>> =>
                       /\ Listed(elementEventMap', n, t) = Listed(elementEventMap, n, t)
                       /\ SelectSeq(listeners'[n], LAMBDA l : l.type = t)
                             = SelectSeq(listeners[n], LAMBDA l : l.type = t)]_allvars
    /\ [][ecall.kind = "off" /\ ecall'.kind = "trigger"
             /\ ecall'.element = ecall.element /\ ecall'.eventName = ecall.eventName =>
                 Fired(ecall.element)' \subseteq
                     Listed(elementEventMap, ecall.element, ecall.eventName)]_allvars


\* How often x occurs in the list s.
Occurrences(s, x) == Cardinality({i \in 1..Len(s) : s[i] = x})

RECURSIVE SumOver(_, _)
SumOver(f, keys) ==
    IF keys = {} THEN 0
    ELSE LET k == CHOOSE j \in keys : TRUE IN f[k] + SumOver(f, keys \ {k})

\* How often the per-node registries list the handler for the event name.
RegisteredOnNodes(eventName, handler) ==
    SumOver([n \in DOMAIN elementEventMap |->
                Occurrences(GetList(elementEventMap[n], eventName), handler)],
            DOMAIN elementEventMap)

\* C40: the global list of an event name holds each handler as often as the
\* per-node registries list it for that name on some element, after any
\* sequence of on, off, unregister calls and clearElementEvents.
C40_RegistriesConsistent ==
    \A t \in EventNames, h \in EventHandlers :
        Occurrences(GetList(eventRegistry, t), h) = RegisteredOnNodes(t, h)


\* The calls the delegatedHandler of the i-th binding made in the last operation.
DelegatedCalls(i) ==
    {j \in 1..Len(invoked) : invoked[j].kind = "delegated" /\ invoked[j].by = i}

\* The bindings whose delegatedHandler is attached: delegate() was called for
\* them and the function it returned was not.
Bound ==
    {i \in 1..Len(bindings) :
        \E l \in SeqRange(listeners[bindings[i].parent]) :
            l.fn.base = "delegated" /\ l.fn.binding = i}

\* C34: when an event fires whose origin is inside the ancestor of a delegated
\* binding for its name, the handler of the binding is invoked once, with the
\* event and m, if the nearest ancestor-or-self m of the origin that matches
\* the selector exists and lies within the ancestor, and it is not invoked
\* otherwise; no error is raised.
C34_DelegatedOnceWithinAncestor ==
    ecall.kind = "trigger" =>
        /\ failure = "none"
        /\ \A i \in Bound :
              bindings[i].eventName = ecall.eventName
                  /\ contains(bindings[i].parent, ecall.element) =>
                      LET m == closest(ecall.element, bindings[i].selector)
                      IN  IF m # "" /\ contains(bindings[i].parent, m)
                          THEN /\ Cardinality(DelegatedCalls(i)) = 1
                               /\ \A j \in DelegatedCalls(i) :
                                     /\ invoked[j].name = bindings[i].handler
                                     /\ invoked[j].origin = ecall.element
                                     /\ invoked[j].arg = m
                          ELSE DelegatedCalls(i) = {}

\* An event fired at x below two bindings of a: one whose selector matches x
\* itself, and one whose nearest match, r, lies outside a; one call was made.
C34_Witness ==
    /\ ecall.kind = "trigger" /\ ecall.element = "x" /\ ecall.eventName = "click"
    /\ \E i, k \in Bound :
          /\ bindings[i].parent = "a" /\ bindings[i].selector = "#x"
          /\ bindings[k].parent = "a" /\ bindings[k].selector = "section"
    /\ Len(invoked) = 1 /\ invoked[1].arg = "x"


----------------------------------------------------------------------------
\* The node a handler that calls scheduleUpdate during a flush schedules,
\* when it is called for the element.
ScheduledBy(handler, element) ==
    IF handler = "hSchedSelf" THEN element ELSE Other(element)

\* C35: a scheduleUpdate call a handler makes while a flush is in progress,
\* for the node being applied or for the other node, is not lost: unless
\* clearUpdates() was called in the same flush, the task is pending when the
\* flush returns and a frame callback is outstanding that will apply it.
C35_ScheduleDuringFlushKept ==
    (lastCall.kind = "flush"
        /\ \A i \in 1..Len(trace) : trace[i].handler # "hClear") =>
        \A i \in 1..Len(trace) :
            (trace[i].ev = "handler" /\ trace[i].handler \in {"hSchedSelf", "hSchedOther"}) =>
                LET n == ScheduledBy(trace[i].handler, trace[i].element)
                IN  /\ IsPending(scheduledUpdates, n)
                    /\ Pending(scheduledUpdates, n).changes = Rescheduled
                    /\ frames # {}


----------------------------------------------------------------------------
\* The element and the elements below it.
Subtree(tree, n) == {n} \cup {m \in DomNodes : n \in Ancestors(tree, m)}

\* C36: when the observation callbacks have handled the removal of an element
\* that is out of the document afterwards, the whole removed subtree is
\* released: neither the element nor any element below it is in the set of
\* reactive elements, has a handle in the handle map or a connected handle.
C36_RemovedSubtreeReleased ==
    dcall.kind = "deliver" =>
        \A i \in 1..Len(dtrace) :
            (dtrace[i].ev = "cleaned" /\ parentOf[dtrace[i].target] = "") =>
                \A m \in Subtree(parentOf, dtrace[i].target) :
                    /\ m \notin reactiveElements
                    /\ elementObservers[m] = <<>>
                    /\ \A k \in 1..Len(mos) : mos[k].element # m


----------------------------------------------------------------------------
\* The list s begins with the list p.
IsPrefix(p, s) == Len(p) <= Len(s) /\ SubSeq(s, 1, Len(p)) = p

\* C37: no update scheduled in a batch is dropped.  While the scheduler is in
\* batch mode every step other than endBatch() and clearUpdates() - a further
\* startBatch() included - keeps the updates queued so far, and endBatch()
\* leaves for every queued update a pending task of its node that carries each
\* of its fields.
C37_BatchedUpdatesKept ==
    [][/\ (batchMode /\ lastCall'.kind \notin {"endBatch", "clearUpdates"}) =>
              IsPrefix(batchQueue, batchQueue')
       /\ (lastCall'.kind = "endBatch") =>
              \A i \in 1..Len(batchQueue) :
                  /\ IsPending(scheduledUpdates', batchQueue[i].element)
                  /\ DOMAIN batchQueue[i].changes
                        \subseteq DOMAIN Pending(scheduledUpdates', batchQueue[i].element).changes
      ]_allvars


----------------------------------------------------------------------------
\* C38: the task endBatch() creates for a node keeps the priority that was
\* passed to scheduleUpdate in the batch: when every update queued for the node
\* has the same priority, that is the priority of its pending task - so that
\* the flush, which sorts by priority, applies a critical batched update
\* before a normal or low one of another node.
C38_BatchKeepsPriority ==
    [][(lastCall'.kind = "endBatch") =>
          \A n \in Nodes, p \in DOMAIN priorityOrder :
              (QueuedFor(batchQueue, n) # {}
                  /\ \A i \in QueuedFor(batchQueue, n) : batchQueue[i].priority = p) =>
                  Pending(scheduledUpdates', n).priority = p]_allvars


----------------------------------------------------------------------------
\* C39: a write to an array through the proxy succeeds for every value, a
\* falsy one as well as a truthy one: the assignment of a value to an index,
\* and push and unshift of values, store the values and raise no error.
C39_ArrayWritesSucceed ==
    /\ (lastOp.kind = "write" /\ IsArray(Lookup(target, Front(lastOp.path)))) =>
          /\ thrown = "none"
          /\ Lookup(target, lastOp.path) = lastOp.value
    /\ lastOp.kind = "push" =>
          /\ thrown = "none"
          /\ \A j \in 1..Len(lastOp.args) :
                Lookup(target, Append(lastOp.path, IdxStr[lastOp.old.v + j])) = lastOp.args[j]
    /\ lastOp.kind = "unshift" =>
          /\ thrown = "none"
          /\ \A j \in 1..Len(lastOp.args) :
                Lookup(target, Append(lastOp.path, IdxStr[j])) = lastOp.args[j]

====
